---- MODULE Spec2Model ----
(***************************************************************************)
(* Model of the two-stage vision inspection and matching pipeline of       *)
(* detect_system: the detectors (vision_engine/detectors), the inspection  *)
(* orchestrator (vision_engine/engine.py), the /match and /inspect         *)
(* handlers (backend/app/api/endpoints/defects.py), the ranking of         *)
(* backend/app/ml/embeddings.py and backend/app/utils/image_utils.py.      *)
(*                                                                         *)
(* Floats in [0,1] (scores, confidences, thresholds) are integers in       *)
(* tenths: 0.0 is 0, 0.5 is 5, 1.0 is 10.  Values outside 0..10 stand for  *)
(* out-of-range floats (-0.1 is -1, 1.5 is 15).                            *)
(*                                                                         *)
(* A call that can raise is a record [raised, value]; a try/except of the  *)
(* source is an IF on .raised.                                             *)
(***************************************************************************)
EXTENDS Integers, Sequences, FiniteSets, TLC

VARIABLES
    engine,   \* the VisionEngine instance: [made, config, detectors]
    det,      \* the AnomalyDetector instance: [exists, config, is_trained, memory_bank]
    disk,     \* the files read: the memory bank of save / load_memory_bank, or the .env
    call,     \* the call that has just completed, with its arguments and its outcome;
              \* under SpecThreads, the two threads at work on the detector
    db        \* the backend database: products and defect profiles

vars == <<engine, det, disk, call, db>>

(***************************************************************************)
(* Bounds                                                                  *)
(***************************************************************************)
ImgW == 4          \* width of the test images, in pixels
ImgH == 3          \* height of the test images, in pixels
MaxImages == 2     \* longest list of OK samples given to train()
MaxFound == 1      \* most regions one detector reports for one image (engine runs)
MaxNms == 3        \* longest region list given to _remove_duplicates on its own

Ok(v) == [raised |-> FALSE, value |-> v]
Raise == [raised |-> TRUE, value |-> "exception"]

RECURSIVE Product(_)
Product(s) == IF s = <<>> THEN 1 ELSE Head(s) * Product(Tail(s))

RECURSIVE SeqsUpTo(_, _)
SeqsUpTo(S, n) ==
    IF n = 0 THEN {<<>>}
    ELSE LET shorter == SeqsUpTo(S, n - 1)
         IN  shorter \cup {Append(s, e) : s \in {t \in shorter : Len(t) = n - 1}, e \in S}

Max2(a, b) == IF a >= b THEN a ELSE b
Min2(a, b) == IF a <= b THEN a ELSE b

(***************************************************************************)
(* Images.  An image argument is None, some non-array object, or a numpy   *)
(* array, of which the code reads only the shape (and size, its product).  *)
(***************************************************************************)
NoneImage == [kind |-> "none", shape |-> <<>>]
ListImage == [kind |-> "list", shape |-> <<>>]
Array(s) == [kind |-> "ndarray", shape |-> s]

Shapes ==
    { <<0>>,                      \* np.array([])
      <<3>>,                      \* rank 1: np.array([1, 2, 3])
      <<ImgH, ImgW>>,             \* grayscale
      <<ImgH, ImgW, 1>>,
      <<ImgH, ImgW, 2>>,          \* bad channel count
      <<ImgH, ImgW, 3>>,          \* BGR
      <<ImgH, ImgW, 3, 2>> }      \* rank 4

Images == {NoneImage, ListImage} \cup {Array(s) : s \in Shapes}

IsArray(image) == image.kind = "ndarray"
Size(image) == Product(image.shape)
Rank(image) == Len(image.shape)

\* The spec's Image invariant: non-empty, rank 2 or 3, channels in {1,3,4}.
ValidImages ==
    {im \in Images : /\ IsArray(im)
                     /\ Size(im) # 0
                     /\ Rank(im) \in {2, 3}
                     /\ (Rank(im) = 3 => im.shape[3] \in {1, 3, 4})}

(***************************************************************************)
(* BaseDetector._validate_image                                            *)
(***************************************************************************)
\* A variant of _validate_image that lacks the test of the rank.
ValidateImageNoRank(image) ==
    IF ~IsArray(image) THEN FALSE
    ELSE IF Size(image) = 0 THEN FALSE
    ELSE IF Rank(image) = 3 /\ image.shape[3] \notin {1, 3, 4} THEN FALSE
    ELSE TRUE

ValidateImage(image) ==
    IF ~IsArray(image) THEN FALSE
    ELSE IF Size(image) = 0 THEN FALSE
    ELSE IF Rank(image) \notin {2, 3} THEN FALSE
    ELSE IF Rank(image) = 3 /\ image.shape[3] \notin {1, 3, 4} THEN FALSE
    ELSE TRUE

(***************************************************************************)
(* OpenCV, as far as the code depends on it.                               *)
(*   cv2.cvtColor(image, COLOR_BGR2GRAY) raises unless the input has 3 or  *)
(*   4 channels.                                                           *)
(*   Its filters reject an empty array; what they do with an array of    *)
(*   rank other than 2 is the library's business: lib_ok, an input of the  *)
(*   call, decides whether they accept it.                                 *)
(***************************************************************************)
ToGray(image) ==
    IF ~IsArray(image) THEN Raise                     \* image.shape: AttributeError
    ELSE IF Rank(image) = 3
         THEN IF Size(image) # 0 /\ image.shape[3] \in {3, 4}
              THEN Ok(Array(<<image.shape[1], image.shape[2]>>))
              ELSE Raise
         ELSE Ok(image)                               \* image.copy()

\* Whether an OpenCV filter (resize, Sobel, Canny, threshold) accepts `gray`.
CvAccepts(gray, lib_ok) ==
    /\ Size(gray) # 0
    /\ (Rank(gray) # 2 => lib_ok)

(***************************************************************************)
(* Defect regions (types.py DefectRegion).                                 *)
(***************************************************************************)
Box(x, y, w, h) == [x |-> x, y |-> y, w |-> w, h |-> h]

\* What a detector's OpenCV pipeline finds in an image: a box and the
\* confidence computed for it (before the confidence-threshold filter).
Candidate(b, c) == [box |-> b, confidence |-> c]

DefectRegion(b, defect_type, confidence, detector_name) ==
    [x |-> b.x, y |-> b.y, w |-> b.w, h |-> b.h, defect_type |-> defect_type,
     confidence |-> confidence, detector_name |-> detector_name]

\* A variant of is_valid that lacks the tests against the image's width and
\* height.
IsValidOriginOnly(r, image_width, image_height) ==
    IF r.x < 0 \/ r.y < 0 THEN FALSE
    ELSE IF r.w <= 0 \/ r.h <= 0 THEN FALSE
    ELSE TRUE

IsValid(r, image_width, image_height) ==
    IF r.x < 0 \/ r.y < 0 THEN FALSE
    ELSE IF r.w <= 0 \/ r.h <= 0 THEN FALSE
    ELSE IF r.x + r.w > image_width THEN FALSE
    ELSE IF r.y + r.h > image_height THEN FALSE
    ELSE TRUE

\* The candidates of the engine runs: an in-image box, a larger one that
\* overlaps it with IoU 2/3, one that sticks out of the image on the right
\* and one of zero width.
BoxA == Box(0, 0, 2, 2)
BoxB == Box(0, 0, 3, 2)
BoxOut == Box(ImgW - 1, 0, 2, 2)
BoxFlat == Box(1, 1, 0, 2)

Candidates ==
    { Candidate(BoxA, 9), Candidate(BoxA, 5), Candidate(BoxB, 9),
      Candidate(BoxOut, 9), Candidate(BoxFlat, 9) }

FoundLists == SeqsUpTo(Candidates, MaxFound)

\* One run of a detector's pipeline on one image: it finds `found`
\* (mode "ok"), fails inside the pipeline (mode "error"), or - for a faulty
\* detector implementation, which the engine guards against - lets an
\* exception leave detect() (mode "escape").
DetEnv(mode, found) == [mode |-> mode, found |-> found]
DetEnvs == {DetEnv("ok", f) : f \in FoundLists} \cup {DetEnv("error", <<>>)}

RECURSIVE ToRegions(_, _, _)
ToRegions(found, defect_type, detector_name) ==
    IF found = <<>> THEN <<>>
    ELSE <<DefectRegion(Head(found).box, defect_type, Head(found).confidence, detector_name)>>
         \o ToRegions(Tail(found), defect_type, detector_name)

RECURSIVE AtLeast(_, _)
AtLeast(found, threshold) ==
    IF found = <<>> THEN <<>>
    ELSE IF Head(found).confidence < threshold THEN AtLeast(Tail(found), threshold)
         ELSE <<Head(found)>> \o AtLeast(Tail(found), threshold)

(***************************************************************************)
(* CrackDetector                                                           *)
(***************************************************************************)
CrackValidateConfigRaises(config) ==
    \/ config.min_length <= 0
    \/ config.max_width <= 0

\* detect() without its try/except.
CrackDetectBody(config, image, env) ==
    IF ~ValidateImage(image) THEN Ok(<<>>)
    ELSE IF ToGray(image).raised THEN Raise
    ELSE IF env.mode # "ok" THEN Raise
    ELSE Ok(ToRegions(AtLeast(env.found, config.confidence_threshold),
                      "crack", "CrackDetector"))

CrackDetect(config, image, env) ==
    LET r == CrackDetectBody(config, image, env)
    IN  IF r.raised THEN <<>> ELSE r.value

(***************************************************************************)
(* HoleDetector                                                            *)
(***************************************************************************)
HoleConfidenceDefault == 7

HoleValidateConfigRaises(config) ==
    \/ config.min_area <= 0
    \/ config.max_area < config.min_area

HoleDetectBody(config, image, env) ==
    IF ~ValidateImage(image) THEN Ok(<<>>)
    ELSE IF ToGray(image).raised THEN Raise
    ELSE IF env.mode # "ok" THEN Raise
    ELSE Ok(ToRegions(AtLeast(env.found, HoleConfidenceDefault), "hole", "HoleDetector"))

HoleDetect(config, image, env) ==
    LET r == HoleDetectBody(config, image, env)
    IN  IF r.raised THEN <<>> ELSE r.value

(***************************************************************************)
(* BaseDetector.get_score: 1.0 if detect() found a region, else 0.0, and   *)
(* 0.0 when detect() raised.                                               *)
(***************************************************************************)
BaseGetScore(detected) ==
    IF detected.raised THEN 0
    ELSE IF Len(detected.value) > 0 THEN 10 ELSE 0

(***************************************************************************)
(* AnomalyDetector                                                         *)
(***************************************************************************)
NoBank == [present |-> FALSE, mean |-> 0, std |-> 0, num_samples |-> 0]
Bank(mean, std, num_samples) ==
    [present |-> TRUE, mean |-> mean, std |-> std, num_samples |-> num_samples]

\* __init__: memory_bank = None, is_trained = False.
NewAnomalyDetector(config) ==
    [exists |-> TRUE, config |-> config, is_trained |-> FALSE, memory_bank |-> NoBank]
NoAnomalyDetector ==
    [exists |-> FALSE, config |-> [anomaly_threshold |-> 0], is_trained |-> FALSE,
     memory_bank |-> NoBank]

AnomalyValidateConfigRaises(config) ==
    ~(0 <= config.anomaly_threshold /\ config.anomaly_threshold <= 10)

\* _extract_features: grayscale, resize to 256x256, statistics.
ExtractFeatures(image, lib_ok) ==
    LET gray == ToGray(image)
    IN  IF gray.raised THEN Raise
        ELSE IF ~CvAccepts(gray.value, lib_ok) THEN Raise
        ELSE Ok("features")

RECURSIVE ExtractAll(_, _)
\* The loop of train(): raises at the first image whose features cannot be
\* extracted.
ExtractAll(images, lib_ok) ==
    IF images = <<>> THEN Ok(0)
    ELSE IF ExtractFeatures(Head(images), lib_ok).raised THEN Raise
    ELSE LET rest == ExtractAll(Tail(images), lib_ok)
         IN  IF rest.raised THEN Raise ELSE Ok(1 + rest.value)

\* The statistics a training set yields are its own: `stats` names them.
TrainStats == {1, 2}
TrainEnvs == [lib_ok : BOOLEAN, stats : TrainStats]

\* A variant of train() that resets is_trained before it raises.
TrainForgetsOnError(d, images, env) ==
    IF Len(images) = 0 \/ ExtractAll(images, env.lib_ok).raised
    THEN [raised |-> TRUE, det |-> [d EXCEPT !.is_trained = FALSE]]
    ELSE [raised |-> FALSE,
          det |-> [d EXCEPT !.memory_bank = Bank(env.stats, env.stats, Len(images)),
                            !.is_trained = TRUE]]

\* A variant of train() that records one sample too few.
TrainCountsFromZero(d, images, env) ==
    IF Len(images) = 0 \/ ExtractAll(images, env.lib_ok).raised
    THEN [raised |-> TRUE, det |-> d]
    ELSE [raised |-> FALSE,
          det |-> [d EXCEPT !.memory_bank = Bank(env.stats, env.stats, Len(images) - 1),
                            !.is_trained = TRUE]]

\* train(ok_images): the detector after the call, and whether it raised.
Train(d, images, env) ==
    IF Len(images) = 0 THEN [raised |-> TRUE, det |-> d]
    ELSE IF ExtractAll(images, env.lib_ok).raised THEN [raised |-> TRUE, det |-> d]
    ELSE [raised |-> FALSE,
          det |-> [d EXCEPT !.memory_bank = Bank(env.stats, env.stats, Len(images)),
                            !.is_trained = TRUE]]

\* The largest absolute z-score of an image's features against the bank, in
\* tenths of a standard deviation.
MaxZValues == {0, 15, 30, 45}

\* One inference of the anomaly detector: how get_score's arithmetic ends
\* (score_mode "ok" with max_z, "error" for an exception inside it, "escape"
\* for one that leaves get_score), and how detect's pipeline ends.
AnomalyEnv(score_mode, max_z, detect) ==
    [score_mode |-> score_mode, max_z |-> max_z, detect |-> detect]

\* _compute_anomaly_score: min(1.0, max_z / 3.0).
ComputeAnomalyScore(d, env) ==
    IF ~d.memory_bank.present THEN Ok(0)
    ELSE IF env.score_mode # "ok" THEN Raise
    ELSE Ok(Min2(10, env.max_z \div 3))

\* get_score() without its try/except.
AnomalyGetScoreBody(d, image, env) ==
    IF ~d.is_trained THEN Ok(0)
    ELSE IF ~ValidateImage(image) THEN Ok(0)
    ELSE IF ExtractFeatures(image, TRUE).raised THEN Raise
    ELSE ComputeAnomalyScore(d, env)

AnomalyGetScore(d, image, env) ==
    LET r == AnomalyGetScoreBody(d, image, env)
    IN  IF r.raised THEN 0 ELSE r.value

\* detect() without its try/except: _compute_anomaly_map, _localize_anomalies.
AnomalyDetectBody(d, image, env) ==
    IF ~d.is_trained THEN Ok(<<>>)
    ELSE IF ~ValidateImage(image) THEN Ok(<<>>)
    ELSE IF ToGray(image).raised THEN Raise
    ELSE IF env.detect.mode # "ok" THEN Raise
    ELSE Ok(ToRegions(env.detect.found, "anomaly", "AnomalyDetector"))

AnomalyDetect(d, image, env) ==
    LET r == AnomalyDetectBody(d, image, env)
    IN  IF r.raised THEN <<>> ELSE r.value

\* The memory-bank file: missing, not a readable .npz, or a saved bank.
FileMissing == [state |-> "missing", bank |-> NoBank]
FileGarbage == [state |-> "garbage", bank |-> NoBank]
FileOf(bank) == [state |-> "bank", bank |-> bank]

\* save_memory_bank: raises when untrained, before anything is written;
\* np.savez itself may fail (io_ok), leaving the file as it was or unreadable.
SaveMemoryBank(d, file, io_ok, torn) ==
    IF ~d.is_trained THEN [raised |-> TRUE, file |-> file]
    ELSE IF ~io_ok THEN [raised |-> TRUE, file |-> IF torn THEN FileGarbage ELSE file]
    ELSE [raised |-> FALSE, file |-> FileOf(d.memory_bank)]

\* A variant of load_memory_bank that sets is_trained before it reads the
\* file.
LoadMemoryBankMarksTrainedFirst(d, file) ==
    IF file.state # "bank" THEN [raised |-> TRUE, det |-> [d EXCEPT !.is_trained = TRUE]]
    ELSE [raised |-> FALSE,
          det |-> [d EXCEPT !.memory_bank = file.bank, !.is_trained = TRUE]]

\* load_memory_bank: np.load and the three reads come before the assignment.
LoadMemoryBank(d, file) ==
    IF file.state # "bank" THEN [raised |-> TRUE, det |-> d]
    ELSE [raised |-> FALSE,
          det |-> [d EXCEPT !.memory_bank = file.bank, !.is_trained = TRUE]]

(***************************************************************************)
(* VisionConfig (types.py) and VisionEngine.__init__ (engine.py).          *)
(* resize_width / resize_height: 0 stands for None (both are falsy).       *)
(***************************************************************************)
Configs ==
    [anomaly_threshold : {-1, 0, 5, 10, 11},
     enable_crack_detector : BOOLEAN,
     enable_hole_detector : BOOLEAN,
     enable_anomaly_detector : BOOLEAN,
     crack_min_length : {0, 20},
     crack_max_width : {5},
     crack_confidence_threshold : {7, 15},
     hole_min_area : {0, 50},
     hole_max_area : {40, 5000},
     hole_circularity_threshold : {6, 12},
     resize : {<<0, 0>>, <<2, 2>>, <<-1, -1>>}]

InUnit(t) == 0 <= t /\ t <= 10

\* VisionConfig.validate: the set of error messages.
ConfigValidate(config) ==
    (IF ~InUnit(config.anomaly_threshold)
     THEN {"anomaly_threshold must be between 0.0 and 1.0"} ELSE {})
    \cup (IF config.crack_min_length <= 0 THEN {"crack_min_length must be positive"} ELSE {})
    \cup (IF config.hole_min_area <= 0 THEN {"hole_min_area must be positive"} ELSE {})
    \cup (IF config.hole_max_area < config.hole_min_area
          THEN {"hole_max_area must be >= hole_min_area"} ELSE {})
    \cup (IF ~InUnit(config.hole_circularity_threshold)
          THEN {"hole_circularity_threshold must be between 0.0 and 1.0"} ELSE {})

CrackConfigOf(config) ==
    [min_length |-> config.crack_min_length, max_width |-> config.crack_max_width,
     confidence_threshold |-> config.crack_confidence_threshold]
HoleConfigOf(config) ==
    [min_area |-> config.hole_min_area, max_area |-> config.hole_max_area,
     circularity_threshold |-> config.hole_circularity_threshold]
AnomalyConfigOf(config) == [anomaly_threshold |-> config.anomaly_threshold]

\* _initialize_detectors: the rule-based detector list, crack before hole.
DetectorList(config) ==
    (IF config.enable_crack_detector THEN <<"CrackDetector">> ELSE <<>>)
    \o (IF config.enable_hole_detector THEN <<"HoleDetector">> ELSE <<>>)

\* Whether __init__ raises: validate() reports an error, or the constructor
\* of an enabled detector rejects its configuration.
ConstructRaises(config) ==
    \/ ConfigValidate(config) # {}
    \/ config.enable_crack_detector /\ CrackValidateConfigRaises(CrackConfigOf(config))
    \/ config.enable_hole_detector /\ HoleValidateConfigRaises(HoleConfigOf(config))
    \/ config.enable_anomaly_detector /\ AnomalyValidateConfigRaises(AnomalyConfigOf(config))

EngineOf(config) == [made |-> TRUE, config |-> config, detectors |-> DetectorList(config)]
NoEngine == [made |-> FALSE]

AnomalyDetectorOf(config) ==
    IF config.enable_anomaly_detector THEN NewAnomalyDetector(AnomalyConfigOf(config))
    ELSE NoAnomalyDetector

(***************************************************************************)
(* VisionEngine._preprocess_image: cv2.resize when both sizes are set.     *)
(* cv2.resize raises on a non-array, an empty array and a size that is not *)
(* positive; it returns a 2-D array for one channel.                       *)
(***************************************************************************)
PreprocessImage(config, image, lib_ok) ==
    LET rw == config.resize[1]
        rh == config.resize[2]
    IN  IF rw = 0 \/ rh = 0 THEN Ok(image)
        ELSE IF ~IsArray(image) \/ Size(image) = 0 THEN Raise
        ELSE IF rw < 0 \/ rh < 0 THEN Raise
        ELSE IF Rank(image) = 2 THEN Ok(Array(<<rh, rw>>))
        ELSE IF Rank(image) = 3
             THEN IF image.shape[3] = 1 THEN Ok(Array(<<rh, rw>>))
                  ELSE Ok(Array(<<rh, rw, image.shape[3]>>))
        ELSE IF lib_ok THEN Ok(Array(<<rh, rw>>))
        ELSE Raise

(***************************************************************************)
(* VisionEngine._compute_iou, as the fraction <<numerator, denominator>>.  *)
(***************************************************************************)
ComputeIou(region1, region2) ==
    LET x_inter_min == Max2(region1.x, region2.x)
        y_inter_min == Max2(region1.y, region2.y)
        x_inter_max == Min2(region1.x + region1.w, region2.x + region2.w)
        y_inter_max == Min2(region1.y + region1.h, region2.y + region2.h)
        inter_area == (x_inter_max - x_inter_min) * (y_inter_max - y_inter_min)
        union_area == region1.w * region1.h + region2.w * region2.h - inter_area
    IN  IF x_inter_max <= x_inter_min \/ y_inter_max <= y_inter_min THEN <<0, 1>>
        ELSE IF union_area = 0 THEN <<0, 1>>
        ELSE <<inter_area, union_area>>

\* iou > 0.5, for a fraction with a positive denominator.
OverHalf(iou) == 2 * iou[1] > iou[2]

(***************************************************************************)
(* VisionEngine._remove_duplicates                                         *)
(***************************************************************************)
RECURSIVE InsertByConfidence(_, _)
\* `r` behind every element of the sorted `s` whose confidence is not lower.
InsertByConfidence(s, r) ==
    IF s = <<>> THEN <<r>>
    ELSE IF Head(s).confidence >= r.confidence
         THEN <<Head(s)>> \o InsertByConfidence(Tail(s), r)
         ELSE <<r>> \o s

RECURSIVE SortedByConfidenceAscending(_)
\* A variant of the sort, without reverse=True.
SortedByConfidenceAscending(regions) ==
    IF regions = <<>> THEN <<>>
    ELSE LET rest == SortedByConfidenceAscending(SubSeq(regions, 1, Len(regions) - 1))
             r == regions[Len(regions)]
             before == {i \in 1..Len(rest) : rest[i].confidence <= r.confidence}
         IN  SubSeq(rest, 1, Cardinality(before)) \o <<r>>
                \o SubSeq(rest, Cardinality(before) + 1, Len(rest))

RECURSIVE SortedByConfidence(_)
\* sorted(regions, key=confidence, reverse=True): stable.
SortedByConfidence(regions) ==
    IF regions = <<>> THEN <<>>
    ELSE InsertByConfidence(SortedByConfidence(SubSeq(regions, 1, Len(regions) - 1)),
                            regions[Len(regions)])

IsDuplicate(region, keep) ==
    \E i \in 1..Len(keep) : OverHalf(ComputeIou(region, keep[i]))

RECURSIVE Nms(_, _)
Nms(regions_sorted, keep) ==
    IF regions_sorted = <<>> THEN keep
    ELSE Nms(Tail(regions_sorted),
             IF IsDuplicate(Head(regions_sorted), keep) THEN keep
             ELSE Append(keep, Head(regions_sorted)))

\* A variant of _remove_duplicates that compares a region with the last kept
\* region only.
RECURSIVE NmsAgainstLast(_, _)
NmsAgainstLast(regions_sorted, keep) ==
    IF regions_sorted = <<>> THEN keep
    ELSE NmsAgainstLast(Tail(regions_sorted),
             IF keep # <<>> /\ OverHalf(ComputeIou(Head(regions_sorted), keep[Len(keep)]))
             THEN keep
             ELSE Append(keep, Head(regions_sorted)))

RemoveDuplicatesLastOnly(regions) ==
    IF Len(regions) <= 1 THEN regions
    ELSE NmsAgainstLast(SortedByConfidence(regions), <<>>)

RemoveDuplicates(regions) ==
    IF Len(regions) <= 1 THEN regions
    ELSE Nms(SortedByConfidence(regions), <<>>)

(***************************************************************************)
(* InspectionResult (types.py) and VisionEngine._make_decision.            *)
(* detectors_used is the set of names here; the list made of it is chosen  *)
(* by the action (list(set(...)) has no fixed order).                      *)
(***************************************************************************)
CreateOkResult(anomaly_score) ==
    [result |-> "OK", anomaly_score |-> anomaly_score, defect_regions |-> <<>>,
     detectors_used |-> {}, anomaly_threshold |-> -1]

CreateNgResult(anomaly_score, defect_regions) ==
    [result |-> "NG", anomaly_score |-> anomaly_score, defect_regions |-> defect_regions,
     detectors_used |-> {}, anomaly_threshold |-> -1]

MakeDecision(config, anomaly_score, regions) ==
    IF anomaly_score > config.anomaly_threshold
    THEN CreateNgResult(anomaly_score, regions)
    ELSE IF Len(regions) > 0 THEN CreateNgResult(anomaly_score, regions)
    ELSE CreateOkResult(anomaly_score)

(***************************************************************************)
(* VisionEngine.inspect                                                    *)
(***************************************************************************)
Stage(score, regions, names) == [score |-> score, regions |-> regions, names |-> names]

\* A variant of STEP 1 whose except branch leaves anomaly_score as
\* get_score returned it.
AnomalyStageKeepsScore(d, processed, env) ==
    IF ~d.exists THEN Stage(0, <<>>, <<>>)
    ELSE IF env.score_mode = "escape" THEN Stage(0, <<>>, <<>>)
    ELSE IF env.detect.mode = "escape"
         THEN Stage(AnomalyGetScore(d, processed, env), <<>>, <<>>)
    ELSE LET anomaly_score == AnomalyGetScore(d, processed, env)
             anomaly_regions == AnomalyDetect(d, processed, env)
         IN  Stage(anomaly_score, anomaly_regions,
                   IF anomaly_regions # <<>> \/ anomaly_score > 0
                   THEN <<"AnomalyDetector">> ELSE <<>>)

\* STEP 1: the anomaly detector, inside its own try/except.
AnomalyStage(d, processed, env) ==
    IF ~d.exists THEN Stage(0, <<>>, <<>>)
    ELSE IF env.score_mode = "escape" THEN Stage(0, <<>>, <<>>)
    ELSE IF env.detect.mode = "escape" THEN Stage(0, <<>>, <<>>)
    ELSE LET anomaly_score == AnomalyGetScore(d, processed, env)
             anomaly_regions == AnomalyDetect(d, processed, env)
         IN  Stage(anomaly_score, anomaly_regions,
                   IF anomaly_regions # <<>> \/ anomaly_score > 0
                   THEN <<"AnomalyDetector">> ELSE <<>>)

\* detector.detect(processed_image) of a rule-based detector of the list.
RuleDetect(kind, config, processed, env) ==
    IF env.mode = "escape" THEN Raise
    ELSE IF kind = "CrackDetector"
         THEN Ok(CrackDetect(CrackConfigOf(config), processed, env))
         ELSE Ok(HoleDetect(HoleConfigOf(config), processed, env))

RECURSIVE RuleStageNamesAll(_, _, _, _, _)
\* A variant of the loop that names every detector that did not raise.
RuleStageNamesAll(detectors, config, processed, envs, acc) ==
    IF detectors = <<>> THEN acc
    ELSE LET regions == RuleDetect(Head(detectors), config, processed, envs[Head(detectors)])
         IN  RuleStageNamesAll(Tail(detectors), config, processed, envs,
                 IF regions.raised THEN acc
                 ELSE Stage(acc.score, acc.regions \o regions.value,
                            Append(acc.names, Head(detectors))))

RECURSIVE RuleStage(_, _, _, _, _)
\* STEP 2: the loop over self.detectors; a raising detector is skipped.
RuleStage(detectors, config, processed, envs, acc) ==
    IF detectors = <<>> THEN acc
    ELSE LET regions == RuleDetect(Head(detectors), config, processed, envs[Head(detectors)])
         IN  RuleStage(Tail(detectors), config, processed, envs,
                 IF regions.raised THEN acc
                 ELSE Stage(acc.score, acc.regions \o regions.value,
                            IF regions.value # <<>>
                            THEN Append(acc.names, Head(detectors)) ELSE acc.names))

RECURSIVE ValidRegions(_, _, _)
ValidRegions(regions, w, h) ==
    IF regions = <<>> THEN <<>>
    ELSE IF IsValid(Head(regions), w, h)
         THEN <<Head(regions)>> \o ValidRegions(Tail(regions), w, h)
         ELSE ValidRegions(Tail(regions), w, h)

Elements(s) == {s[i] : i \in 1..Len(s)}

\* The except branch of inspect(): the NG result of the safe failure mode.
ErrorResult(eng) ==
    [CreateNgResult(10, <<>>) EXCEPT
        !.detectors_used = {"ERROR"},
        !.anomaly_threshold = eng.config.anomaly_threshold]

\* STEP 4 and the audit metadata.
Decide(eng, both, valid_regions) ==
    [MakeDecision(eng.config, both.score, valid_regions) EXCEPT
        !.detectors_used = Elements(both.names),
        !.anomaly_threshold = eng.config.anomaly_threshold]

\* STEP 3: duplicate removal, h, w = processed_image.shape[:2] (which raises
\* on an array of rank below 2) and the bounds filter.
PostProcess(eng, processed, both) ==
    IF Rank(processed) < 2 THEN Raise
    ELSE Ok(Decide(eng, both,
                   ValidRegions(RemoveDuplicates(both.regions),
                                processed.shape[2], processed.shape[1])))

\* STEPS 1 to 4 on the preprocessed image.
Detect(eng, d, pre, aenv, envs) ==
    IF pre.raised THEN Raise
    ELSE PostProcess(eng, pre.value,
             RuleStage(eng.detectors, eng.config, pre.value, envs,
                       AnomalyStage(d, pre.value, aenv)))

\* The body of the outer try of inspect().
InspectBody(eng, d, image, lib_ok, aenv, envs) ==
    IF ~IsArray(image) THEN Raise
    ELSE IF Size(image) = 0 THEN Raise
    ELSE Detect(eng, d, PreprocessImage(eng.config, image, lib_ok), aenv, envs)

\* A variant of inspect() that lacks the outer try/except.
Uncaught(eng, r) == r

\* The outer try/except of inspect(): any exception becomes ErrorResult.
Caught(eng, r) == IF r.raised THEN Ok(ErrorResult(eng)) ELSE r

\* inspect(): what the call hands back, [raised, value].
InspectCall(eng, d, image, lib_ok, aenv, envs) ==
    Caught(eng, InspectBody(eng, d, image, lib_ok, aenv, envs))

(***************************************************************************)
(* The invocations one inspect() call makes, in the order it makes them:   *)
(* the detectors' methods, _remove_duplicates and _make_decision.          *)
(***************************************************************************)
Invocation(callee, method) == [callee |-> callee, method |-> method]

\* STEP 1: get_score, then detect unless get_score let an exception out.
AnomalyCalls(d, env) ==
    IF ~d.exists THEN <<>>
    ELSE IF env.score_mode = "escape" THEN <<Invocation("AnomalyDetector", "get_score")>>
    ELSE <<Invocation("AnomalyDetector", "get_score"),
           Invocation("AnomalyDetector", "detect")>>

RECURSIVE RuleCallsUntilFailure(_, _)
\* A variant of the loop of STEP 2 that ends at the first detector that
\* raises.
RuleCallsUntilFailure(detectors, envs) ==
    IF detectors = <<>> THEN <<>>
    ELSE IF envs[Head(detectors)].mode = "escape"
         THEN <<Invocation(Head(detectors), "detect")>>
         ELSE <<Invocation(Head(detectors), "detect")>>
                 \o RuleCallsUntilFailure(Tail(detectors), envs)

RECURSIVE RuleCallsHoleFirst(_, _)
\* A variant of the loop of STEP 2 that goes through self.detectors from
\* its end.
RuleCallsHoleFirst(detectors, envs) ==
    IF detectors = <<>> THEN <<>>
    ELSE RuleCallsHoleFirst(Tail(detectors), envs)
            \o <<Invocation(Head(detectors), "detect")>>

RECURSIVE RuleCalls(_, _)
\* STEP 2: the loop over self.detectors; whatever a detector does (envs),
\* the loop goes on to the next.
RuleCalls(detectors, envs) ==
    IF detectors = <<>> THEN <<>>
    ELSE <<Invocation(Head(detectors), "detect")>> \o RuleCalls(Tail(detectors), envs)

\* inspect(): nothing is invoked when the image is rejected or cannot be
\* preprocessed; _make_decision is not reached when the shape has no
\* height and width.
InspectCalls(eng, d, image, pre, aenv, envs) ==
    IF ~IsArray(image) THEN <<>>
    ELSE IF Size(image) = 0 THEN <<>>
    ELSE IF pre.raised THEN <<>>
    ELSE AnomalyCalls(d, aenv) \o RuleCalls(eng.detectors, envs)
            \o <<Invocation("VisionEngine", "_remove_duplicates")>>
            \o (IF Rank(pre.value) < 2 THEN <<>>
                ELSE <<Invocation("VisionEngine", "_make_decision")>>)

\* train_anomaly_detector(ok_images).
RECURSIVE PreprocessAll(_, _, _)
PreprocessAll(config, images, lib_ok) ==
    IF images = <<>> THEN Ok(<<>>)
    ELSE LET one == PreprocessImage(config, Head(images), lib_ok)
             rest == PreprocessAll(config, Tail(images), lib_ok)
         IN  IF one.raised \/ rest.raised THEN Raise
             ELSE Ok(<<one.value>> \o rest.value)

TrainAnomalyDetector(eng, d, images, env) ==
    IF ~d.exists THEN [raised |-> TRUE, det |-> d]
    ELSE LET processed == PreprocessAll(eng.config, images, env.lib_ok)
         IN  IF processed.raised THEN [raised |-> TRUE, det |-> d]
             ELSE Train(d, processed.value, env)

(***************************************************************************)
(* Calls on the detectors themselves (test_hardening.py,                   *)
(* test_detector_interface): one detector of each class, the rule-based    *)
(* ones with the configuration of the test.                                *)
(***************************************************************************)
Idle == [op |-> "idle"]
NoDb == [loaded |-> FALSE]

TestCrackConfig == [min_length |-> 20, max_width |-> 5, confidence_threshold |-> 7]
TestHoleConfig == [min_area |-> 50, max_area |-> 5000, circularity_threshold |-> 6]

DetectorKinds == {"CrackDetector", "HoleDetector", "AnomalyDetector"}

AnomalyEnvs ==
    {AnomalyEnv("ok", z, e) : z \in MaxZValues, e \in DetEnvs}
        \cup {AnomalyEnv("error", 0, e) : e \in DetEnvs}

\* The environments of a call on detector `kind`: an anomaly inference, or a
\* rule-based pipeline run.
EnvsOf(kind) == IF kind = "AnomalyDetector" THEN AnomalyEnvs ELSE DetEnvs

DetectOf(kind, d, image, env) ==
    IF kind = "CrackDetector" THEN CrackDetect(TestCrackConfig, image, env)
    ELSE IF kind = "HoleDetector" THEN HoleDetect(TestHoleConfig, image, env)
    ELSE AnomalyDetect(d, image, env)

GetScoreOf(kind, d, image, env) ==
    IF kind = "AnomalyDetector" THEN AnomalyGetScore(d, image, env)
    ELSE BaseGetScore(Ok(DetectOf(kind, d, image, env)))

\* The engines whose only detector is the anomaly detector
\* (examples/train_anomaly_detector.py), with every valid threshold and
\* resize setting of Configs.
AnomalyOnlyConfigs ==
    {c \in Configs : /\ ~ConstructRaises(c)
                     /\ c.enable_anomaly_detector
                     /\ ~c.enable_crack_detector /\ ~c.enable_hole_detector
                     /\ c.crack_confidence_threshold = 7}

\* The detector under test is the engine's: engine.anomaly_detector.
DetectorsInit ==
    /\ \E c \in AnomalyOnlyConfigs :
          /\ engine = EngineOf(c)
          /\ det = AnomalyDetectorOf(c)
    /\ disk \in {FileMissing, FileGarbage, FileOf(Bank(2, 2, 1))}
    /\ call = Idle
    /\ db = NoDb

DetDetect ==
    /\ call.op = "idle"
    /\ \E kind \in DetectorKinds, image \in Images :
         \E env \in EnvsOf(kind) :
            call' = [op |-> "detect", kind |-> kind, image |-> image, raised |-> FALSE,
                     trained |-> det.is_trained,
                     value |-> DetectOf(kind, det, image, env)]
    /\ UNCHANGED <<engine, det, disk, db>>

DetGetScore ==
    /\ call.op = "idle"
    /\ \E kind \in DetectorKinds, image \in Images :
         \E env \in EnvsOf(kind) :
            call' = [op |-> "get_score", kind |-> kind, image |-> image, raised |-> FALSE,
                     trained |-> det.is_trained,
                     value |-> GetScoreOf(kind, det, image, env)]
    /\ UNCHANGED <<engine, det, disk, db>>

TrainLists == SeqsUpTo(Images, MaxImages)

DetTrain ==
    /\ call.op = "idle"
    /\ \E images \in TrainLists, env \in TrainEnvs :
         LET r == Train(det, images, env)
         IN  /\ det' = r.det
             /\ call' = [op |-> "train", images |-> images, lib_ok |-> env.lib_ok,
                         raised |-> r.raised, before |-> det]
    /\ UNCHANGED <<engine, disk, db>>

DetSave ==
    /\ call.op = "idle"
    /\ \E io_ok \in BOOLEAN, torn \in BOOLEAN :
         LET r == SaveMemoryBank(det, disk, io_ok, torn)
         IN  /\ disk' = r.file
             /\ call' = [op |-> "save", raised |-> r.raised, before |-> det,
                         file_before |-> disk]
    /\ UNCHANGED <<engine, det, db>>

DetLoad ==
    /\ call.op = "idle"
    /\ LET r == LoadMemoryBank(det, disk)
       IN  /\ det' = r.det
           /\ call' = [op |-> "load", raised |-> r.raised, before |-> det]
    /\ UNCHANGED <<engine, disk, db>>

\* The caller takes the outcome; the next call can begin.
Return ==
    /\ call.op # "idle"
    /\ call' = Idle
    /\ UNCHANGED <<engine, det, disk, db>>

(***************************************************************************)
(* Calls on the engine.                                                    *)
(***************************************************************************)
QuietDetEnv == DetEnv("ok", <<>>)
QuietAnomalyEnv == AnomalyEnv("ok", 0, QuietDetEnv)

\* Inside the engine an exception that detect() or get_score() swallows
\* shows as an empty list or a 0.0: the "error" modes add nothing there.
DetEnvsEngine == {DetEnv("ok", f) : f \in FoundLists} \cup {DetEnv("escape", <<>>)}

AnomalyEnvsEngine ==
    {AnomalyEnv("ok", z, e) : z \in MaxZValues, e \in DetEnvsEngine}
        \cup {AnomalyEnv("escape", 0, QuietDetEnv)}

\* The environments that make a difference to a detector call on `pre`, the
\* outcome of preprocessing: a detector that is absent, or that rejects the
\* image before its pipeline runs, can only return nothing or be faulty.
AnomalyEnvsFor(d, image, pre) ==
    IF ~d.exists \/ ~IsArray(image) \/ Size(image) = 0 \/ pre.raised THEN {QuietAnomalyEnv}
    ELSE IF ~d.is_trained \/ ~ValidateImage(pre.value)
         THEN {QuietAnomalyEnv, AnomalyEnv("escape", 0, QuietDetEnv),
               AnomalyEnv("ok", 0, DetEnv("escape", <<>>))}
         ELSE AnomalyEnvsEngine

RuleEnvsFor(enabled, image, pre) ==
    IF ~enabled \/ ~IsArray(image) \/ Size(image) = 0 \/ pre.raised THEN {QuietDetEnv}
    ELSE IF ~ValidateImage(pre.value) THEN {QuietDetEnv, DetEnv("escape", <<>>)}
         ELSE DetEnvsEngine

\* Whether the library's handling of an odd rank is met at all.
LibChoices(config, image) ==
    IF IsArray(image) /\ Rank(image) \notin {2, 3}
          /\ config.resize[1] # 0 /\ config.resize[2] # 0
    THEN BOOLEAN ELSE {TRUE}

\* list(set(detector_names)): the names once each, in some order.
Orderings(S) ==
    {s \in [1..Cardinality(S) -> S] : {s[i] : i \in 1..Cardinality(S)} = S}

Construct ==
    /\ call.op = "idle"
    /\ ~engine.made
    /\ \E config \in Configs :
         IF ConstructRaises(config)
         THEN /\ call' = [op |-> "construct", config |-> config, raised |-> TRUE]
              /\ UNCHANGED <<engine, det>>
         ELSE /\ engine' = EngineOf(config)
              /\ det' = AnomalyDetectorOf(config)
              /\ call' = [op |-> "construct", config |-> config, raised |-> FALSE]
    /\ UNCHANGED <<disk, db>>

\* The completed call, with the list made of detectors_used; next to its
\* outcome the record keeps what the detectors did (aenv, envs) and the
\* invocations the call made, in order.
InspectOutcome(image, pre, r, lib_ok, aenv, envs) ==
    IF r.raised
    THEN call' = [op |-> "inspect", image |-> image, raised |-> TRUE,
                  preprocessed |-> ~pre.raised, pre |-> pre, lib_ok |-> lib_ok,
                  aenv |-> aenv, envs |-> envs,
                  calls |-> InspectCalls(engine, det, image, pre, aenv, envs)]
    ELSE \E used \in Orderings(r.value.detectors_used) :
            call' = [op |-> "inspect", image |-> image, raised |-> FALSE,
                     preprocessed |-> ~pre.raised, pre |-> pre, lib_ok |-> lib_ok,
                  aenv |-> aenv, envs |-> envs,
                     calls |-> InspectCalls(engine, det, image, pre, aenv, envs),
                     result |-> [r.value EXCEPT !.detectors_used = used]]

InspectWith(image, lib_ok, pre) ==
    \E aenv \in AnomalyEnvsFor(det, image, pre),
       cenv \in RuleEnvsFor(engine.config.enable_crack_detector, image, pre),
       henv \in RuleEnvsFor(engine.config.enable_hole_detector, image, pre) :
       InspectOutcome(image, pre,
                      InspectCall(engine, det, image, lib_ok, aenv,
                                  [CrackDetector |-> cenv, HoleDetector |-> henv]),
                      lib_ok, aenv, [CrackDetector |-> cenv, HoleDetector |-> henv])

\* A variant of inspect that uses the memory bank up: the detector is
\* left untrained.
InspectForgetsBank ==
    /\ call.op = "idle"
    /\ engine.made
    /\ \E image \in Images :
         \E lib_ok \in LibChoices(engine.config, image) :
            InspectWith(image, lib_ok, PreprocessImage(engine.config, image, lib_ok))
    /\ det' = [det EXCEPT !.is_trained = FALSE]
    /\ UNCHANGED <<engine, disk, db>>

Inspect ==
    /\ call.op = "idle"
    /\ engine.made
    /\ \E image \in Images :
         \E lib_ok \in LibChoices(engine.config, image) :
            InspectWith(image, lib_ok, PreprocessImage(engine.config, image, lib_ok))
    /\ UNCHANGED <<engine, det, disk, db>>

\* The engine runs never read the bank's statistics: one value stands for them.
EngineTrain ==
    /\ call.op = "idle"
    /\ engine.made
    /\ \E images \in TrainLists, env \in {e \in TrainEnvs : e.stats = 1} :
         LET r == TrainAnomalyDetector(engine, det, images, env)
         IN  /\ det' = r.det
             /\ call' = [op |-> "train", images |-> images, lib_ok |-> env.lib_ok,
                         raised |-> r.raised, before |-> det]
    /\ UNCHANGED <<engine, disk, db>>

DetectorsNext ==
    \/ DetDetect
    \/ DetGetScore
    \/ DetTrain
    \/ DetSave
    \/ DetLoad
    \/ Inspect
    \/ Return

EngineInit ==
    /\ engine = NoEngine
    /\ det = NoAnomalyDetector
    /\ disk = FileMissing
    /\ call = Idle
    /\ db = NoDb

EngineNext ==
    \/ Construct
    \/ Inspect
    \/ EngineTrain
    \/ Return

SpecEngine == EngineInit /\ [][EngineNext]_vars

SpecDetectors == DetectorsInit /\ [][DetectorsNext]_vars

(***************************************************************************)
(* _remove_duplicates and _compute_iou on their own: every list of up to   *)
(* MaxNms regions over boxes that are identical, overlap by more and by    *)
(* less than half, touch, are disjoint, or have no area.                   *)
(***************************************************************************)
NmsBoxes ==
    { Box(0, 0, 2, 2),      \* IoU 2/3 with the next, 1/3 with the third
      Box(0, 0, 3, 2),
      Box(1, 0, 2, 2),      \* IoU 2/3 with the second
      Box(2, 0, 2, 2),      \* touches the first
      Box(5, 5, 1, 1),      \* disjoint from all
      Box(1, 1, 0, 2) }     \* no area

NmsRegions ==
    {DefectRegion(b, "crack", 9, "CrackDetector") : b \in NmsBoxes}
        \cup {DefectRegion(Box(0, 0, 2, 2), "hole", c, "HoleDetector") : c \in {5, 9}}
        \cup {DefectRegion(Box(1, 0, 2, 2), "anomaly", 7, "AnomalyDetector")}

NmsLists == SeqsUpTo(NmsRegions, MaxNms)

NmsInit ==
    /\ engine = NoEngine
    /\ det = NoAnomalyDetector
    /\ disk = FileMissing
    /\ call = Idle
    /\ db = NoDb

CallRemoveDuplicates ==
    /\ call.op = "idle"
    /\ \E regions \in NmsLists :
          call' = [op |-> "remove_duplicates", regions |-> regions,
                   value |-> RemoveDuplicates(regions)]
    /\ UNCHANGED <<engine, det, disk, db>>

CallComputeIou ==
    /\ call.op = "idle"
    /\ \E region1 \in NmsRegions, region2 \in NmsRegions :
          call' = [op |-> "compute_iou", region1 |-> region1, region2 |-> region2,
                   value |-> ComputeIou(region1, region2)]
    /\ UNCHANGED <<engine, det, disk, db>>

NmsNext ==
    \/ CallRemoveDuplicates
    \/ CallComputeIou
    \/ Return

SpecNms == NmsInit /\ [][NmsNext]_vars

(***************************************************************************)
(* POST /match (backend/app/api/endpoints/defects.py match_defect).        *)
(* Similarities and scores are integers in hundredths (0.6 is 60), the     *)
(* weights in tenths.  A request field that is None is 0 (an id) or ""     *)
(* (text_query and user_id, which the handler only tests for truth).       *)
(***************************************************************************)
NoneId == 0

\* core/config.py Settings: the fields the matcher reads, of those it has.
SIMILARITY_THRESHOLD == 60
IMAGE_WEIGHT == 6
TEXT_WEIGHT == 4

settings ==
    [SIMILARITY_THRESHOLD |-> SIMILARITY_THRESHOLD,
     IMAGE_WEIGHT |-> IMAGE_WEIGHT,
     TEXT_WEIGHT |-> TEXT_WEIGHT,
     UPLOAD_DIR |-> "./data/uploads"]

\* getattr on the settings object: AttributeError for a field it lacks.
HasSetting(name) == name \in DOMAIN settings

\* models/defect.py: the mapped columns of DefectProfile the handler uses.
DefectProfileColumns == {"id", "defect_type", "image_embedding", "text_embedding"}

\* schemas/defect.py: the names the module defines, the fields of
\* DefectMatchResult (a pydantic model ignores other keywords).
SchemaNames ==
    {"DefectProfileCreate", "DefectProfileResponse", "DefectIncidentCreate",
     "DefectIncidentResponse", "DefectMatchResult"}
DefectMatchResultFields == {"defect_profile", "confidence", "similarity_breakdown", "warning"}

DefectMatchResult(kwargs) ==
    [f \in (DOMAIN kwargs) \cap DefectMatchResultFields |-> kwargs[f]]

\* The rows of the database.
ProductRow(id, customer_id) == [id |-> id, customer_id |-> customer_id]
ProfileRow(id, product_id, defect_type, has_text) ==
    [id |-> id, product_id |-> product_id, defect_type |-> defect_type,
     has_text |-> has_text]

ProductRows == {ProductRow(1, 1), ProductRow(2, 2)}
ProfileRows ==
    { ProfileRow(1, 1, "crack", TRUE), ProfileRow(2, 1, "OK", TRUE),
      ProfileRow(3, 1, "ok", FALSE), ProfileRow(4, 2, "crack", TRUE) }

Database(profiles) ==
    [loaded |-> TRUE, products |-> ProductRows, profiles |-> profiles, incidents |-> <<>>]

\* str.upper() on the defect types of ProfileRows.
Upper(t) == IF t = "ok" THEN "OK" ELSE IF t = "crack" THEN "CRACK" ELSE t

Requests ==
    [image_ok : BOOLEAN,              \* whether the upload decodes as an image
     text_query : {"", "q"},
     user_id : {"", "u1"},
     customer_id : {NoneId, 1, 2},
     product_id : {NoneId, 1, 2, 3}]

Similarities == {50, 60, 90}

HttpError(status) == [kind |-> "http_error", status |-> status]
Unhandled == [kind |-> "exception"]
Response(body) == [kind |-> "result", body |-> body]

\* query.filter(DefectProfile.product_id == product_id).all()
ProfilesOf(d, product_id) == {p \in d.profiles : p.product_id = product_id}

\* One request's surroundings: the order the rows come back in, the
\* similarities CLIP yields for each profile, whether the upload can be
\* written and whether the commit succeeds.
MatchEnv(rows, img, text, save_ok, commit_ok) ==
    [rows |-> rows, img |-> img, text |-> text, save_ok |-> save_ok,
     commit_ok |-> commit_ok]

MatchEnvs(profiles) ==
    LET ids == {p.id : p \in profiles}
    IN  {MatchEnv(rows, img, text, save_ok, commit_ok) :
            rows \in Orderings(profiles),
            img \in [ids -> Similarities], text \in [ids -> {50, 90}],
            save_ok \in BOOLEAN, commit_ok \in BOOLEAN}

QuietMatchEnv == MatchEnv(<<>>, <<>>, <<>>, TRUE, TRUE)

(***************************************************************************)
(* EmbeddingService.find_top_k_matches (backend/app/ml/embeddings.py)      *)
(***************************************************************************)
Scored(profile, text_query, env) ==
    LET img_sim == env.img[profile.id]
    IN  IF text_query # "" /\ profile.has_text
        THEN [profile |-> profile,
              score |-> (IMAGE_WEIGHT * img_sim + TEXT_WEIGHT * env.text[profile.id]) \div 10,
              image_similarity |-> img_sim, text_similarity |-> env.text[profile.id]]
        ELSE [profile |-> profile, score |-> img_sim,
              image_similarity |-> img_sim, text_similarity |-> 0]

RECURSIVE InsertByScore(_, _)
InsertByScore(s, m) ==
    IF s = <<>> THEN <<m>>
    ELSE IF Head(s).score >= m.score THEN <<Head(s)>> \o InsertByScore(Tail(s), m)
         ELSE <<m>> \o s

RECURSIVE SortedByScore(_, _, _)
\* The scoring loop and scored_profiles.sort(key=score, reverse=True): stable.
SortedByScore(candidates, text_query, env) ==
    IF candidates = <<>> THEN <<>>
    ELSE InsertByScore(
             SortedByScore(SubSeq(candidates, 1, Len(candidates) - 1), text_query, env),
             Scored(candidates[Len(candidates)], text_query, env))

FirstK(s, k) == SubSeq(s, 1, Min2(k, Len(s)))

\* The closing log line reads settings.OK_THRESHOLD and MARGIN_THRESHOLD.
FindTopKMatches(candidates, text_query, env, k) ==
    IF ~HasSetting("OK_THRESHOLD") \/ ~HasSetting("MARGIN_THRESHOLD") THEN Raise
    ELSE Ok(FirstK(SortedByScore(candidates, text_query, env), k))

(***************************************************************************)
(* The decision policy of match_defect.                                    *)
(***************************************************************************)
Verdict(outcome, warning) == [outcome |-> outcome, warning |-> warning]

\* The OK-profile check.
OkCheck(confidence) ==
    IF ~HasSetting("OK_THRESHOLD") THEN Raise
    ELSE IF confidence >= settings.OK_THRESHOLD THEN Ok(Verdict("OK", "None"))
    ELSE Ok(Verdict("UNKNOWN", "OK profile matched but confidence is below OK threshold"))

MatchDecision(top_k) ==
    LET confidence == top_k[1].score
        best_profile == top_k[1].profile
    IN  IF confidence < settings.SIMILARITY_THRESHOLD
        THEN Ok(Verdict("UNKNOWN", "Confidence is below threshold"))
        ELSE IF Len(top_k) > 1
        THEN IF ~HasSetting("MARGIN_THRESHOLD") THEN Raise
             ELSE IF top_k[1].score - top_k[2].score < settings.MARGIN_THRESHOLD
             THEN Ok(Verdict("UNKNOWN", "Ambiguous result: top matches are too close"))
             ELSE IF Upper(best_profile.defect_type) = "OK" THEN OkCheck(confidence)
             ELSE Ok(Verdict("DEFECT", "None"))
        ELSE IF Upper(best_profile.defect_type) = "OK" THEN OkCheck(confidence)
        ELSE Ok(Verdict("DEFECT", "None"))

(***************************************************************************)
(* match_defect: the handler.  Its outcome is the response - a result, an  *)
(* HTTPException it raises itself, or an exception that leaves it (which   *)
(* the framework answers with status 500) - and the database afterwards.   *)
(***************************************************************************)
Handled(response, d) == [response |-> response, db |-> d]

Continue == [kind |-> "continue"]

\* Everything before find_top_k_matches: the embedding of the upload, the
\* product checks, the profile query and the read of settings.TOP_K_RESULTS.
Precheck(d, req) ==
    IF ~req.image_ok THEN Unhandled
    ELSE IF req.product_id = NoneId THEN HttpError(400)
    ELSE IF ~(\E p \in d.products : p.id = req.product_id) THEN HttpError(400)
    ELSE IF req.customer_id # NoneId
            /\ (CHOOSE p \in d.products : p.id = req.product_id).customer_id # req.customer_id
         THEN HttpError(400)
    ELSE IF "product_id" \notin DefectProfileColumns THEN Unhandled
    ELSE IF ProfilesOf(d, req.product_id) = {} THEN HttpError(404)
    ELSE IF ~HasSetting("TOP_K_RESULTS") THEN Unhandled
    ELSE Continue

\* The top_k response, the upload, the incident and the result.
MatchRespond(d, req, env, top_k, verdict) ==
    IF "TopKMatch" \notin SchemaNames THEN Handled(Unhandled, d)
    ELSE LET confidence == top_k[1].score
             best_profile == top_k[1].profile
             uploaded == req.user_id # "" /\ env.save_ok
             persist == /\ req.user_id # ""
                        /\ uploaded
                        /\ verdict.outcome \in {"DEFECT", "OK"}
                        /\ env.commit_ok
             incident == [user_id |-> req.user_id,
                          defect_profile_id |-> best_profile.id,
                          predicted_defect_type |-> best_profile.defect_type,
                          confidence |-> confidence,
                          notes |-> req.text_query]
             body == DefectMatchResult(
                        [outcome |-> verdict.outcome,
                         defect_profile |-> IF verdict.outcome = "UNKNOWN" THEN NoneId
                                            ELSE best_profile.id,
                         confidence |-> confidence,
                         similarity_breakdown |-> [image_weight |-> settings.IMAGE_WEIGHT,
                                                   text_weight |-> settings.TEXT_WEIGHT],
                         warning |-> verdict.warning,
                         top_k |-> top_k])
         IN  Handled(Response(body),
                     IF persist THEN [d EXCEPT !.incidents = Append(@, incident)] ELSE d)

\* From the ranking on.
MatchRanked(d, req, env, top_k) ==
    IF top_k.raised THEN Handled(Unhandled, d)
    ELSE IF top_k.value = <<>>
         THEN Handled(Response(DefectMatchResult(
                         [outcome |-> "UNKNOWN", defect_profile |-> NoneId,
                          confidence |-> 0, similarity_breakdown |-> "None",
                          warning |-> "No defect profiles found to match against",
                          top_k |-> <<>>])), d)
    ELSE LET verdict == MatchDecision(top_k.value)
         IN  IF verdict.raised THEN Handled(Unhandled, d)
             ELSE MatchRespond(d, req, env, top_k.value, verdict.value)

MatchDefect(d, req, env) ==
    LET early == Precheck(d, req)
    IN  IF early.kind # "continue" THEN Handled(early, d)
        ELSE MatchRanked(d, req, env,
                 FindTopKMatches(env.rows, req.text_query, env, settings.TOP_K_RESULTS))

\* A request that decodes, names a product that exists and belongs to the
\* customer given, and has profiles to be matched against.
HasCandidates(d, req) ==
    /\ req.image_ok
    /\ \E p \in d.products :
          /\ p.id = req.product_id
          /\ req.customer_id \in {NoneId, p.customer_id}
    /\ ProfilesOf(d, req.product_id) # {}

\* The surroundings that make a difference to a request.
MatchEnvsFor(d, req) ==
    IF HasCandidates(d, req) THEN MatchEnvs(ProfilesOf(d, req.product_id))
    ELSE {QuietMatchEnv}

MatchInit ==
    /\ engine = NoEngine
    /\ det = NoAnomalyDetector
    /\ disk = FileMissing
    /\ call = Idle
    /\ db \in {Database(profiles) : profiles \in SUBSET ProfileRows}

Match ==
    /\ call.op = "idle"
    /\ \E req \in Requests :
         \E env \in MatchEnvsFor(db, req) :
            LET r == MatchDefect(db, req, env)
            IN  /\ db' = r.db
                /\ call' = [op |-> "match", request |-> req, env |-> env,
                            response |-> r.response]
    /\ UNCHANGED <<engine, det, disk>>

MatchNext ==
    \/ Match
    \/ Return

SpecMatch == MatchInit /\ [][MatchNext]_vars

(***************************************************************************)
(* EmbeddingService.find_top_k_matches called on its own: every list of    *)
(* up to MaxCandidates distinct profiles, every similarity CLIP can yield  *)
(* for them, with and without a text query, for every k in 1..MaxK.        *)
(***************************************************************************)
MaxCandidates == 3     \* longest candidate list given to find_top_k_matches
MaxK == 3              \* largest k asked of find_top_k_matches

\* The candidate lists made of a set of profiles, with the similarities
\* CLIP yields for them.
CandidateEnvs(profiles) ==
    {MatchEnv(rows, img, text, TRUE, TRUE) :
        rows \in Orderings(profiles),
        img \in [{p.id : p \in profiles} -> Similarities],
        text \in [{p.id : p \in profiles} -> {50, 90}]}

TopKInit ==
    /\ engine = NoEngine
    /\ det = NoAnomalyDetector
    /\ disk = FileMissing
    /\ call = Idle
    /\ db = Database({})

CallFindTopKMatches ==
    /\ call.op = "idle"
    /\ \E profiles \in {ps \in SUBSET ProfileRows : Cardinality(ps) <= MaxCandidates} :
          \E env \in CandidateEnvs(profiles), text_query \in {"", "q"}, k \in 1..MaxK :
             LET r == FindTopKMatches(env.rows, text_query, env, k)
             IN  call' = [op |-> "find_top_k_matches", candidates |-> env.rows,
                          text_query |-> text_query, env |-> env, k |-> k,
                          raised |-> r.raised, value |-> r.value]
    /\ UNCHANGED <<engine, det, disk, db>>

TopKNext ==
    \/ CallFindTopKMatches
    \/ Return

SpecTopK == TopKInit /\ [][TopKNext]_vars

(***************************************************************************)
(* backend/app/utils/image_utils.py.  Coordinates and sizes are Python     *)
(* integers, in pixels.  The None an operation returns in place of an      *)
(* image is NoneImage, in place of a region NoRegion.                      *)
(***************************************************************************)
BoxOf(x, y, w, h) == [x |-> x, y |-> y, w |-> w, h |-> h]

\* A variant of clamp_box that bounds the width and height by the image's
\* and not by what is left of it from (x, y) on.
ClampBoxWholeImage(x, y, w, h, image_width, image_height) ==
    LET cx == Max2(0, Min2(x, image_width - 1))
        cy == Max2(0, Min2(y, image_height - 1))
    IN  BoxOf(cx, cy, Max2(1, Min2(w, image_width)), Max2(1, Min2(h, image_height)))

ClampBox(x, y, w, h, image_width, image_height) ==
    LET cx == Max2(0, Min2(x, image_width - 1))
        cy == Max2(0, Min2(y, image_height - 1))
        max_w == image_width - cx
        max_h == image_height - cy
    IN  BoxOf(cx, cy, Max2(1, Min2(w, max_w)), Max2(1, Min2(h, max_h)))

\* The body of crop_defect_region's try, from the clamping on.
CropClamped(image, box) ==
    IF box.w <= 0 \/ box.h <= 0 THEN NoneImage
    ELSE LET cropped == Array(<<box.h, box.w>> \o SubSeq(image.shape, 3, Rank(image)))
         IN  IF Size(cropped) = 0 THEN NoneImage ELSE cropped

\* A variant of crop_defect_region that does not apply the padding.
CropDefectRegionUnpadded(image, x, y, w, h, padding) ==
    IF image = NoneImage THEN NoneImage
    ELSE IF ~IsArray(image) THEN NoneImage
    ELSE IF Size(image) = 0 THEN NoneImage
    ELSE IF Rank(image) < 2 THEN NoneImage
    ELSE CropClamped(image, ClampBox(x, y, w, h, image.shape[2], image.shape[1]))

\* image.size raises for what is not an array and the unpacking of
\* image.shape[:2] for an array of rank 1; the except returns None.
CropDefectRegion(image, x, y, w, h, padding) ==
    IF image = NoneImage THEN NoneImage
    ELSE IF ~IsArray(image) THEN NoneImage
    ELSE IF Size(image) = 0 THEN NoneImage
    ELSE IF Rank(image) < 2 THEN NoneImage
    ELSE LET image_height == image.shape[1]
             image_width == image.shape[2]
         IN  IF padding > 0
             THEN CropClamped(image, ClampBox(x - padding, y - padding, w + 2 * padding,
                                              h + 2 * padding, image_width, image_height))
             ELSE CropClamped(image, ClampBox(x, y, w, h, image_width, image_height))

NoRegion == [x |-> -1, y |-> -1, w |-> 0, h |-> 0, confidence |-> -1]

\* A variant of max(iterable, key=...) that keeps the last of several
\* maximal elements.
MaxIndexLast(keys) ==
    CHOOSE i \in 1..Len(keys) :
        /\ \A j \in 1..Len(keys) : keys[j] <= keys[i]
        /\ \A j \in (i + 1)..Len(keys) : keys[j] < keys[i]

\* max(iterable, key=...): the index of the first of the maximal elements.
MaxIndex(keys) ==
    CHOOSE i \in 1..Len(keys) :
        /\ \A j \in 1..Len(keys) : keys[j] <= keys[i]
        /\ \A j \in 1..(i - 1) : keys[j] < keys[i]

GetArea(r) == r.w * r.h

SelectBestRegion(defect_regions, strategy) ==
    IF defect_regions = <<>> THEN NoRegion
    ELSE IF strategy = "first" THEN defect_regions[1]
    ELSE IF strategy = "highest_confidence"
         THEN defect_regions[MaxIndex([i \in 1..Len(defect_regions) |->
                                          defect_regions[i].confidence])]
    ELSE defect_regions[MaxIndex([i \in 1..Len(defect_regions) |->
                                     GetArea(defect_regions[i])])]

(***************************************************************************)
(* The image utilities called on their own.                                *)
(***************************************************************************)
MaxRegions == 3        \* longest region list given to select_best_region

\* The dicts DefectRegion.to_dict() yields: two sizes a side, two confidences.
RegionDicts ==
    {[x |-> 0, y |-> 0, w |-> w, h |-> h, confidence |-> c] :
        w \in {1, 2}, h \in {1, 2}, c \in {5, 9}}

Strategies == {"first", "highest_confidence", "largest", "smallest"}

ImageUtilsInit ==
    /\ engine = NoEngine
    /\ det = NoAnomalyDetector
    /\ disk = FileMissing
    /\ call = Idle
    /\ db = Database({})

CallClampBox ==
    /\ call.op = "idle"
    /\ \E x \in -2..(ImgW + 1), y \in -2..(ImgH + 1),
          w \in -1..(ImgW + 1), h \in -1..(ImgH + 1),
          image_width \in 1..ImgW, image_height \in 1..ImgH :
          call' = [op |-> "clamp_box", box |-> BoxOf(x, y, w, h),
                   image_width |-> image_width, image_height |-> image_height,
                   value |-> ClampBox(x, y, w, h, image_width, image_height)]
    /\ UNCHANGED <<engine, det, disk, db>>

CallCropDefectRegion ==
    /\ call.op = "idle"
    /\ \E image \in Images, x \in -1..ImgW, y \in -1..ImgH,
          w \in -1..(ImgW + 1), h \in -1..(ImgH + 1), padding \in {0, 1} :
          call' = [op |-> "crop_defect_region", image |-> image,
                   box |-> BoxOf(x, y, w, h), padding |-> padding,
                   raised |-> FALSE,
                   value |-> CropDefectRegion(image, x, y, w, h, padding)]
    /\ UNCHANGED <<engine, det, disk, db>>

CallSelectBestRegion ==
    /\ call.op = "idle"
    /\ \E defect_regions \in SeqsUpTo(RegionDicts, MaxRegions), strategy \in Strategies :
          call' = [op |-> "select_best_region", defect_regions |-> defect_regions,
                   strategy |-> strategy,
                   value |-> SelectBestRegion(defect_regions, strategy)]
    /\ UNCHANGED <<engine, det, disk, db>>

ImageUtilsNext ==
    \/ CallClampBox
    \/ CallCropDefectRegion
    \/ CallSelectBestRegion
    \/ Return

SpecImageUtils == ImageUtilsInit /\ [][ImageUtilsNext]_vars

(***************************************************************************)
(* VisionIntegrationService (backend/app/services/vision_integration.py).  *)
(* In the runs of /inspect `disk` holds the deployment's .env, of which    *)
(* the model keeps ENABLE_VISION_PIPELINE, and `engine` is the service's   *)
(* lazily made _vision_engine.                                             *)
(***************************************************************************)
VISION_ANOMALY_THRESHOLD == 5

EnvFile(enable) == [state |-> "env", ENABLE_VISION_PIPELINE |-> enable]

\* VisionConfig(anomaly_threshold=..., crack and hole on, anomaly off): the
\* other fields at their defaults.
ServiceConfig ==
    [anomaly_threshold |-> VISION_ANOMALY_THRESHOLD,
     enable_crack_detector |-> TRUE,
     enable_hole_detector |-> TRUE,
     enable_anomaly_detector |-> FALSE,
     crack_min_length |-> 20,
     crack_max_width |-> 5,
     crack_confidence_threshold |-> 7,
     hole_min_area |-> 50,
     hole_max_area |-> 5000,
     hole_circularity_threshold |-> 6,
     resize |-> <<0, 0>>]

\* _initialize_vision_engine: the engine afterwards (made: it returned True).
InitializeVisionEngine(eng, enabled, init_ok) ==
    IF eng.made THEN eng
    ELSE IF ~enabled THEN NoEngine
    ELSE IF ~init_ok \/ ConstructRaises(ServiceConfig) THEN NoEngine
    ELSE EngineOf(ServiceConfig)

\* cv2.imdecode(nparr, cv2.IMREAD_COLOR): a BGR array, or None.
Decode(image_ok) == IF image_ok THEN Array(<<ImgH, ImgW, 3>>) ELSE NoneImage

\* What inspect_image returns: None, or the dict of the inspection result.
NoVision == [result |-> "None"]
VisionDisabled == [result |-> "N/A"]

InspectImage(eng, image_ok, envs) ==
    IF ~eng.made THEN NoVision
    ELSE IF Decode(image_ok) = NoneImage THEN NoVision
    ELSE LET r == InspectCall(eng, NoAnomalyDetector, Decode(image_ok), TRUE,
                              QuietAnomalyEnv, envs)
         IN  IF r.raised THEN NoVision
             ELSE [result |-> r.value.result,
                   anomaly_score |-> r.value.anomaly_score,
                   defect_regions |-> r.value.defect_regions,
                   detectors_used |-> r.value.detectors_used]

\* The bytes handed to the matcher: the upload, or the JPEG of a crop.
Upload(image_ok) == [kind |-> "upload", image_ok |-> image_ok]
CropBytes(region, cropped) == [kind |-> "crop", region |-> region, shape |-> cropped.shape]
NoBytes == [kind |-> "none"]

\* crop_best_region: the crop of the largest region, padded by 10 pixels,
\* encoded as JPEG; None when anything fails.
CropBestRegion(image_ok, defect_regions, encode_ok) ==
    IF defect_regions = <<>> THEN NoBytes
    ELSE IF Decode(image_ok) = NoneImage THEN NoBytes
    ELSE LET best_region == SelectBestRegion(defect_regions, "largest")
             cropped == CropDefectRegion(Decode(image_ok), best_region.x, best_region.y,
                                         best_region.w, best_region.h, 10)
         IN  IF cropped = NoneImage THEN NoBytes
             ELSE IF ~encode_ok THEN NoBytes
             ELSE CropBytes(best_region, cropped)

(***************************************************************************)
(* POST /inspect (backend/app/api/endpoints/defects.py inspect_defect).    *)
(* match_on_ok is "None" when the form field is absent.  Next to the       *)
(* response the model keeps what the handler did with the matcher: whether *)
(* it invoked it and on which bytes.                                       *)
(***************************************************************************)
InspectRequests ==
    [image_ok : BOOLEAN, text_query : {"", "q"}, match_on_ok : {"None", "false", "true"}]

NoMatch == [defect_profile |-> NoneId, confidence |-> 0]
NotInvoked == [invoked |-> FALSE, image |-> NoBytes]
Invoked(image) == [invoked |-> TRUE, image |-> image]

\* find_best_match: the profile and score of the first of the top 1.
FindBestMatch(candidates, text_query, env) ==
    LET top_k_matches == FindTopKMatches(candidates, text_query, env, 1)
    IN  IF top_k_matches.raised THEN Raise
        ELSE IF top_k_matches.value # <<>>
             THEN Ok([profile |-> top_k_matches.value[1].profile,
                      score |-> top_k_matches.value[1].score])
             ELSE Ok([profile |-> "None", score |-> 0])

MatchError == [match |-> NoMatch, warning |-> "CLIP matching error"]

\* The try of the matching stage: match and, where it sets one, the
\* warning ("" where it leaves the warning as it was).
ClipMatch(image_for_matching, text_query, env) ==
    IF image_for_matching.kind = "upload" /\ ~image_for_matching.image_ok THEN MatchError
    ELSE IF ~env.embed_ok THEN MatchError
    ELSE IF env.match.rows = <<>>
         THEN [match |-> NoMatch, warning |-> "No defect profiles in database"]
    ELSE LET best == FindBestMatch(env.match.rows, text_query, env.match)
         IN  IF best.raised THEN MatchError
             ELSE IF best.value.score >= settings.SIMILARITY_THRESHOLD
                  THEN [match |-> [defect_profile |-> best.value.profile.id,
                                   confidence |-> best.value.score],
                        warning |-> ""]
                  ELSE [match |-> NoMatch, warning |-> "No confident match found"]

\* A variant of the matching decision that matches on every vision result.
ShouldMatchAlways(vision_result, match_on_ok, fallback_to_clip) ==
    IF vision_result # NoVision THEN TRUE
    ELSE match_on_ok = "true" \/ fallback_to_clip

\* STAGE 2, should_match.
ShouldMatch(vision_result, match_on_ok, fallback_to_clip) ==
    IF vision_result # NoVision /\ vision_result.result = "NG" THEN TRUE
    ELSE match_on_ok = "true" \/ fallback_to_clip

\* STAGE 2, image_for_matching.
ImageForMatching(vision_result, vision_service, image_ok, encode_ok) ==
    IF vision_result # NoVision /\ vision_result.result = "NG"
    THEN IF vision_result.defect_regions # <<>> /\ vision_service
         THEN LET cropped == CropBestRegion(image_ok, vision_result.defect_regions, encode_ok)
              IN  IF cropped # NoBytes THEN cropped ELSE Upload(image_ok)
         ELSE Upload(image_ok)
    ELSE Upload(image_ok)

InspectHandled(response, eng, matcher) ==
    [response |-> response, engine |-> eng, matcher |-> matcher]

\* The matching stage and the response.
InspectRespond(eng, req, env, vision, fallback_to_clip, should_match, image_for_matching) ==
    LET warning == IF fallback_to_clip
                   THEN "Vision pipeline failed, using CLIP-only matching" ELSE "None"
    IN  IF should_match
        THEN LET m == ClipMatch(image_for_matching, req.text_query, env)
             IN  InspectHandled(
                    Response([vision |-> vision, match |-> m.match,
                              fallback_to_clip |-> fallback_to_clip,
                              warning |-> IF m.warning = "" THEN warning ELSE m.warning]),
                    eng, Invoked(image_for_matching))
        ELSE InspectHandled(
                Response([vision |-> vision, match |-> NoMatch,
                          fallback_to_clip |-> fallback_to_clip, warning |-> warning]),
                eng, NotInvoked)

\* STAGE 1's response fields and STAGE 2's decision, from the vision result
\* (NoVision where the vision stage did not run or returned None).
InspectDecide(eng, req, env, ran, vision_result) ==
    LET fallback_to_clip == ran /\ vision_result = NoVision
    IN  InspectRespond(eng, req, env,
            IF ran THEN vision_result ELSE VisionDisabled,
            fallback_to_clip,
            ShouldMatch(vision_result, req.match_on_ok, fallback_to_clip),
            ImageForMatching(vision_result, ran, req.image_ok, env.encode_ok))

\* After the services are there: the vision stage runs if the pipeline is
\* enabled and the vision service could be imported.
InspectStages(eng, enabled, req, env) ==
    IF enabled /\ env.import_ok
    THEN InspectDecide(eng, req, env, TRUE,
                       InspectImage(eng, req.image_ok,
                                    [CrackDetector |-> env.crack, HoleDetector |-> env.hole]))
    ELSE InspectDecide(eng, req, env, FALSE, NoVision)

\* get_embedding_service() is outside every try: if CLIP cannot be loaded
\* the exception leaves the handler.
InspectDefect(eng, enabled, req, env) ==
    IF ~env.clip_ok THEN InspectHandled(Unhandled, eng, NotInvoked)
    ELSE InspectStages(IF enabled /\ env.import_ok
                       THEN InitializeVisionEngine(eng, enabled, env.init_ok) ELSE eng,
                       enabled, req, env)

\* A region apart from BoxA, and larger.
BoxFar == Box(2, 0, 2, 3)

\* One run of a detector inside the service's engine: nothing found, one
\* region (BoxA, BoxB that overlaps it, BoxFar), a candidate below the
\* confidence thresholds, or an exception.
InspectDetEnvs ==
    { QuietDetEnv,
      DetEnv("ok", <<Candidate(BoxA, 9)>>),
      DetEnv("ok", <<Candidate(BoxB, 9)>>),
      DetEnv("ok", <<Candidate(BoxFar, 9)>>),
      DetEnv("ok", <<Candidate(BoxA, 5)>>),
      DetEnv("escape", <<>>) }

InspectEnv(clip_ok, import_ok, init_ok, crack, hole, encode_ok, embed_ok, match) ==
    [clip_ok |-> clip_ok, import_ok |-> import_ok, init_ok |-> init_ok,
     crack |-> crack, hole |-> hole, encode_ok |-> encode_ok, embed_ok |-> embed_ok,
     match |-> match]

\* db.query(DefectProfile).all() and CLIP's similarities for the rows.
InspectMatchEnvs(d) ==
    {MatchEnv(rows, img, text, TRUE, TRUE) :
        rows \in Orderings(d.profiles),
        img \in [{p.id : p \in d.profiles} -> Similarities],
        text \in [{p.id : p \in d.profiles} -> {50, 90}]}

\* The surroundings that make a difference to a request: the detectors'
\* findings only where the engine runs, on an upload that decodes.
InspectEnvs(d, eng, enabled, req) ==
    {InspectEnv(TRUE, import_ok, init_ok, crack, hole, encode_ok, embed_ok, match) :
        import_ok \in (IF enabled THEN BOOLEAN ELSE {TRUE}),
        init_ok \in (IF enabled /\ ~eng.made THEN BOOLEAN ELSE {TRUE}),
        crack \in (IF enabled /\ req.image_ok THEN InspectDetEnvs ELSE {QuietDetEnv}),
        hole \in (IF enabled /\ req.image_ok THEN InspectDetEnvs ELSE {QuietDetEnv}),
        encode_ok \in (IF enabled /\ req.image_ok THEN BOOLEAN ELSE {TRUE}),
        embed_ok \in BOOLEAN,
        match \in InspectMatchEnvs(d)}
    \cup {InspectEnv(FALSE, TRUE, TRUE, QuietDetEnv, QuietDetEnv, TRUE, TRUE, QuietMatchEnv)}

InspectInit ==
    /\ engine = NoEngine
    /\ det = NoAnomalyDetector
    /\ disk \in {EnvFile(TRUE), EnvFile(FALSE)}
    /\ call = Idle
    /\ db \in {Database({}), Database({ProfileRow(1, 1, "crack", TRUE)})}

InspectEndpoint ==
    /\ call.op = "idle"
    /\ \E req \in InspectRequests :
         \E env \in InspectEnvs(db, engine, disk.ENABLE_VISION_PIPELINE, req) :
            LET r == InspectDefect(engine, disk.ENABLE_VISION_PIPELINE, req, env)
            IN  /\ engine' = r.engine
                /\ call' = [op |-> "inspect_defect", request |-> req, env |-> env,
                            response |-> r.response, matcher |-> r.matcher]
    /\ UNCHANGED <<det, disk, db>>

InspectEndpointNext ==
    \/ InspectEndpoint
    \/ Return

SpecInspect == InspectInit /\ [][InspectEndpointNext]_vars

(***************************************************************************)
(* Properties of VisionEngine.inspect                                      *)
(***************************************************************************)
\* C1: inspect never raises: every completed call, whatever the input and
\* whatever the detectors did, returned a result that is "OK" or "NG".
C1_InspectNeverRaises ==
    call.op = "inspect" => (~call.raised /\ call.result.result \in {"OK", "NG"})

\* C1, reached: inspect(None) came back with an NG result.
C1_InspectNoneReturned ==
    /\ call.op = "inspect"
    /\ call.image = NoneImage
    /\ ~call.raised
    /\ call.result.result = "NG"

\* C2, as stated: for every image that fails validation (not an array,
\* empty, rank other than 2 or 3, rank 3 with channels outside {1,3,4})
\* inspect returns NG, anomaly_score 1.0, no regions, detectors_used ["ERROR"].
C2_InvalidImageGivesSentinel ==
    (call.op = "inspect" /\ call.image \notin ValidImages)
        => /\ ~call.raised
           /\ call.result.result = "NG"
           /\ call.result.anomaly_score = 10
           /\ call.result.defect_regions = <<>>
           /\ call.result.detectors_used = <<"ERROR">>

\* C3, as stated: every result inspect returns has result "NG" if and only
\* if its anomaly_score exceeds the anomaly_threshold it records or its
\* defect_regions is non-empty.
C3_NgIffOverThresholdOrRegions ==
    (call.op = "inspect" /\ ~call.raised)
        => (call.result.result = "NG"
               <=> \/ call.result.anomaly_score > call.result.anomaly_threshold
                   \/ call.result.defect_regions # <<>>)

(***************************************************************************)
(* Properties of duplicate removal                                         *)
(***************************************************************************)
\* C4: no two distinct regions of the list _remove_duplicates returns have
\* IoU above 0.5; the IoU of two identical boxes of positive area is 1.0
\* and that of two disjoint or touching boxes is 0.0.
C4_NoOverlapAfterNms ==
    /\ call.op = "remove_duplicates"
          => \A i, j \in 1..Len(call.value) :
                i # j => ~(2 * ComputeIou(call.value[i], call.value[j])[1]
                              > ComputeIou(call.value[i], call.value[j])[2])
    /\ call.op = "compute_iou"
          => LET a == call.region1
                 b == call.region2
             IN  /\ (a.x = b.x /\ a.y = b.y /\ a.w = b.w /\ a.h = b.h /\ a.w * a.h > 0)
                        => (call.value[1] = call.value[2] /\ call.value[2] > 0)
                 /\ (\/ a.x + a.w <= b.x \/ b.x + b.w <= a.x
                     \/ a.y + a.h <= b.y \/ b.y + b.h <= a.y)
                        => call.value[1] = 0

\* C4, reached: of three regions, two of them the same box, one was dropped.
C4_DuplicateDropped ==
    /\ call.op = "remove_duplicates"
    /\ Len(call.regions) = 3
    /\ Len(call.value) = 2
    /\ \E i, j \in 1..3 :
          /\ i # j
          /\ ComputeIou(call.regions[i], call.regions[j])[1]
                = ComputeIou(call.regions[i], call.regions[j])[2]

(***************************************************************************)
(* Properties of the detectors                                             *)
(***************************************************************************)
\* C5: detect() of every detector on an image that is None, not an array,
\* empty or of malformed rank or channel count returns [] without raising,
\* get_score() on it returns 0.0 without raising, and get_score() is always
\* within [0,1].
C5_DetectorsRejectBadImages ==
    /\ (call.op = "detect" /\ call.image \notin ValidImages)
          => (~call.raised /\ call.value = <<>>)
    /\ (call.op = "get_score" /\ call.image \notin ValidImages)
          => (~call.raised /\ call.value = 0)
    /\ call.op = "get_score" => (0 <= call.value /\ call.value <= 10)

\* C5, reached: a trained anomaly detector scored a rank-1 array 0.0.
C5_TrainedScoresBadImageZero ==
    /\ call.op = "get_score"
    /\ call.kind = "AnomalyDetector"
    /\ call.trained
    /\ call.image = Array(<<3>>)
    /\ call.value = 0

\* C6: the anomaly detector starts Untrained, becomes Trained only by a
\* train() or load_memory_bank() that did not raise, never goes back to
\* Untrained, and has a memory bank whenever is_trained is true.
C6_TrainingOneWay ==
    /\ ~det.is_trained
    /\ [][/\ det.is_trained => det'.is_trained
          /\ (~det.is_trained /\ det'.is_trained)
                => (call'.op \in {"train", "load"} /\ ~call'.raised)
          /\ det'.is_trained => det'.memory_bank.present]_vars

\* C6, reached: train() raised on a Trained detector, which is still Trained.
C6_FailedTrainKeepsTrained ==
    /\ call.op = "train"
    /\ call.raised
    /\ call.before.is_trained
    /\ det.is_trained
    /\ det.memory_bank.present

\* C7, as stated: while the anomaly detector is Untrained get_score returns
\* 0.0 and detect returns [], an engine whose only detector it is returns
\* "OK" with anomaly_score 0.0 for every valid image, and save_memory_bank
\* raises and writes nothing.
C7_UntrainedIsQuiet ==
    /\ (call.op = "get_score" /\ call.kind = "AnomalyDetector" /\ ~call.trained)
          => call.value = 0
    /\ (call.op = "detect" /\ call.kind = "AnomalyDetector" /\ ~call.trained)
          => call.value = <<>>
    /\ (call.op = "inspect" /\ ~det.is_trained /\ call.image \in ValidImages)
          => (~call.raised /\ call.result.result = "OK" /\ call.result.anomaly_score = 0)
    /\ (call.op = "save" /\ ~call.before.is_trained)
          => (call.raised /\ disk = call.file_before)

C9_InvalidConfigRejected ==
    (/\ call.op = "construct"
     /\ \/ call.config.hole_max_area < call.config.hole_min_area
        \/ ~(0 <= call.config.anomaly_threshold /\ call.config.anomaly_threshold <= 10)
        \/ ~(0 <= call.config.crack_confidence_threshold
                /\ call.config.crack_confidence_threshold <= 10)
        \/ ~(0 <= call.config.hole_circularity_threshold
                /\ call.config.hole_circularity_threshold <= 10))
        => (call.raised /\ ~engine.made)

(***************************************************************************)
(* Properties of /match                                                    *)
(***************************************************************************)
\* C10, as stated: whenever the top-1 combined score of a /match request is
\* below SIMILARITY_THRESHOLD the outcome is UNKNOWN, with a warning and no
\* defect_profile, whatever the runner-up's score and the leading type.
C10_LowConfidenceIsUnknown ==
    (/\ call.op = "match"
     /\ call.env.rows # <<>>
     /\ \A i \in 1..Len(call.env.rows) :
           Scored(call.env.rows[i], call.request.text_query, call.env).score
              < SIMILARITY_THRESHOLD)
        => /\ call.response.kind = "result"
           /\ "outcome" \in DOMAIN call.response.body
           /\ call.response.body.outcome = "UNKNOWN"
           /\ call.response.body.warning # "None"
           /\ call.response.body.defect_profile = NoneId

\* C11, as stated: whenever a /match request has at least two candidate
\* profiles, the top-1 combined score is at least SIMILARITY_THRESHOLD and
\* the runner-up is too close (here: ties with it, a margin of 0, under
\* every positive MARGIN_THRESHOLD), the outcome is UNKNOWN with the
\* ambiguity warning, whatever the leading type.
C11_CloseRunnerUpIsUnknown ==
    (/\ call.op = "match"
     /\ Len(call.env.rows) >= 2
     /\ LET ranked == SortedByScore(call.env.rows, call.request.text_query, call.env)
        IN  /\ ranked[1].score >= SIMILARITY_THRESHOLD
            /\ ranked[1].score - ranked[2].score = 0)
        => /\ call.response.kind = "result"
           /\ "outcome" \in DOMAIN call.response.body
           /\ call.response.body.outcome = "UNKNOWN"
           /\ call.response.body.warning = "Ambiguous result: top matches are too close"

\* C12, as stated: whenever the top-1 combined score of a /match request is
\* at least SIMILARITY_THRESHOLD, a leading profile whose type is "OK" in
\* any case gives outcome OK or UNKNOWN and never DEFECT; a leading profile
\* of another type gives DEFECT when it is the only candidate, and DEFECT
\* or (margin too small) UNKNOWN when there are several.
C12_OkLeaderNeverDefect ==
    (/\ call.op = "match"
     /\ call.env.rows # <<>>
     /\ SortedByScore(call.env.rows, call.request.text_query, call.env)[1].score
           >= SIMILARITY_THRESHOLD)
        => /\ call.response.kind = "result"
           /\ "outcome" \in DOMAIN call.response.body
           /\ LET leader == SortedByScore(call.env.rows, call.request.text_query,
                                          call.env)[1].profile
                  outcome == call.response.body.outcome
              IN  IF Upper(leader.defect_type) = "OK" THEN outcome \in {"OK", "UNKNOWN"}
                  ELSE IF Len(call.env.rows) = 1 THEN outcome = "DEFECT"
                  ELSE outcome \in {"DEFECT", "UNKNOWN"}

\* C13, as stated: a /match request for a product that exists (and belongs
\* to the customer given) but has no defect profiles does not fail: its
\* response is a result with outcome UNKNOWN, an empty top-K list and the
\* "no profiles" warning.
C13_NoCandidatesIsUnknown ==
    (/\ call.op = "match"
     /\ call.request.image_ok
     /\ \E p \in db.products :
           /\ p.id = call.request.product_id
           /\ call.request.customer_id \in {NoneId, p.customer_id}
     /\ ProfilesOf(db, call.request.product_id) = {})
        => /\ call.response.kind = "result"
           /\ {"outcome", "top_k"} \subseteq DOMAIN call.response.body
           /\ call.response.body.outcome = "UNKNOWN"
           /\ call.response.body.top_k = <<>>
           /\ call.response.body.warning = "No defect profiles found to match against"

\* C14, as stated, in the case where the policy decides DEFECT from
\* SIMILARITY_THRESHOLD alone: after a /match request that supplies a
\* user_id and has a single candidate, of a type other than OK, scoring at
\* least SIMILARITY_THRESHOLD, the response is a result and if its outcome
\* is DEFECT an incident for that profile has been persisted.
C14_IncidentForDecidedOutcome ==
    (/\ call.op = "match"
     /\ call.request.user_id # ""
     /\ Len(call.env.rows) = 1
     /\ Upper(call.env.rows[1].defect_type) # "OK"
     /\ Scored(call.env.rows[1], call.request.text_query, call.env).score
           >= SIMILARITY_THRESHOLD)
        => /\ call.response.kind = "result"
           /\ "outcome" \in DOMAIN call.response.body
           /\ call.response.body.outcome = "DEFECT"
                 => \E i \in 1..Len(db.incidents) :
                       /\ db.incidents[i].user_id = call.request.user_id
                       /\ db.incidents[i].defect_profile_id = call.env.rows[1].id

(***************************************************************************)
(* Properties of find_top_k_matches                                        *)
(***************************************************************************)
\* C15, as stated: find_top_k_matches returns exactly min(k, number of
\* candidates) entries, each a distinct candidate, in non-increasing order
\* of combined score, no omitted candidate scoring strictly higher than a
\* returned one; the score is IMAGE_WEIGHT*img_sim + TEXT_WEIGHT*text_sim
\* when a text query is given and the candidate has a text embedding, and
\* img_sim alone otherwise.
C15_TopKIsTheKBest ==
    call.op = "find_top_k_matches"
        => /\ ~call.raised
           /\ Len(call.value) = Min2(call.k, Len(call.candidates))
           /\ \A i \in 1..Len(call.value) :
                 /\ \E j \in 1..Len(call.candidates) :
                       call.value[i].profile = call.candidates[j]
                 /\ \A j \in 1..Len(call.value) :
                       /\ call.value[i].profile = call.value[j].profile => i = j
                       /\ i < j => call.value[i].score >= call.value[j].score
                 /\ LET p == call.value[i].profile
                    IN  call.value[i].score * 10 =
                           IF call.text_query # "" /\ p.has_text
                           THEN IMAGE_WEIGHT * call.env.img[p.id]
                                   + TEXT_WEIGHT * call.env.text[p.id]
                           ELSE 10 * call.env.img[p.id]
           /\ \A j \in 1..Len(call.candidates) :
                 (\A i \in 1..Len(call.value) : call.value[i].profile # call.candidates[j])
                    => \A i \in 1..Len(call.value) :
                          Scored(call.candidates[j], call.text_query, call.env).score
                             <= call.value[i].score

(***************************************************************************)
(* Properties of the image utilities                                       *)
(***************************************************************************)
\* C16: for all integers x, y, w, h and every image_width, image_height > 0
\* the box (x', y', w', h') clamp_box returns has 0 <= x' < image_width,
\* 0 <= y' < image_height, x' + w' <= image_width, y' + h' <= image_height;
\* a box of positive size already inside the image is returned unchanged;
\* clamping the result again returns it unchanged.
C16_ClampedBoxInsideImage ==
    call.op = "clamp_box"
        => LET b == call.value
               W == call.image_width
               H == call.image_height
           IN  /\ 0 <= b.x /\ b.x < W
               /\ 0 <= b.y /\ b.y < H
               /\ b.x + b.w <= W
               /\ b.y + b.h <= H
               /\ (/\ call.box.w > 0 /\ call.box.h > 0
                   /\ call.box.x >= 0 /\ call.box.y >= 0
                   /\ call.box.x + call.box.w <= W
                   /\ call.box.y + call.box.h <= H) => b = call.box
               /\ ClampBox(b.x, b.y, b.w, b.h, W, H) = b

\* C16 witness: a box that starts left of the image and reaches beyond its
\* bottom-right corner has been clamped to the whole image.
C16_OversizedBoxClamped ==
    /\ call.op = "clamp_box"
    /\ call.box.x < 0
    /\ call.box.x + call.box.w > call.image_width
    /\ call.box.y + call.box.h > call.image_height
    /\ call.image_width > 1
    /\ call.value = BoxOf(0, call.value.y, call.image_width, call.value.h)
    /\ call.value # call.box

\* C17, as stated: crop_defect_region never raises; it returns None when
\* the image is None or empty and when the region (with its padding) has
\* a width or height that is zero or negative, and returns a crop only for
\* a region of positive area.
C17_NoCropOfEmptyRegion ==
    call.op = "crop_defect_region"
        => /\ ~call.raised
           /\ (\/ call.image = NoneImage
               \/ (IsArray(call.image) /\ Size(call.image) = 0)
               \/ call.box.w + 2 * call.padding <= 0
               \/ call.box.h + 2 * call.padding <= 0) => call.value = NoneImage

\* C18: select_best_region returns None exactly when the list is empty;
\* otherwise it returns the first element for "first", for
\* "highest_confidence" the earliest element of maximal confidence, and for
\* "largest" and for any other strategy the earliest element of maximal
\* w*h.
C18_BestRegionIsEarliestMaximal ==
    call.op = "select_best_region"
        => LET rs == call.defect_regions
               n == Len(call.defect_regions)
           IN  /\ call.value = NoRegion <=> rs = <<>>
               /\ rs # <<>> =>
                    \E i \in 1..n :
                       /\ call.value = rs[i]
                       /\ call.strategy = "first" => i = 1
                       /\ call.strategy = "highest_confidence" =>
                             /\ \A j \in 1..n : rs[j].confidence <= rs[i].confidence
                             /\ \A j \in 1..(i - 1) : rs[j].confidence < rs[i].confidence
                       /\ call.strategy \notin {"first", "highest_confidence"} =>
                             /\ \A j \in 1..n : rs[j].w * rs[j].h <= rs[i].w * rs[i].h
                             /\ \A j \in 1..(i - 1) : rs[j].w * rs[j].h < rs[i].w * rs[i].h

\* C18 witness: under a strategy the code does not know, of two regions of
\* the same, maximal area the earlier one was returned, ahead of a smaller
\* first element.
C18_TieGoesToEarliest ==
    /\ call.op = "select_best_region"
    /\ call.strategy = "smallest"
    /\ Len(call.defect_regions) = 3
    /\ call.defect_regions[1].w * call.defect_regions[1].h
          < call.defect_regions[2].w * call.defect_regions[2].h
    /\ call.defect_regions[2].w * call.defect_regions[2].h
          = call.defect_regions[3].w * call.defect_regions[3].h
    /\ call.defect_regions[2] # call.defect_regions[3]
    /\ call.value = call.defect_regions[2]

(***************************************************************************)
(* Properties of /inspect                                                  *)
(***************************************************************************)
\* C19, as stated: with ENABLE_VISION_PIPELINE=False a /inspect request
\* that is answered has had the matcher run on the full image, and the
\* response's match is the matcher's, whether or not match_on_ok was
\* supplied.
C19_DisabledPipelineMatches ==
    (/\ call.op = "inspect_defect"
     /\ ~disk.ENABLE_VISION_PIPELINE
     /\ call.response.kind = "result")
        => /\ call.matcher = Invoked(Upload(call.request.image_ok))
           /\ call.response.body.match
                 = ClipMatch(Upload(call.request.image_ok), call.request.text_query,
                             call.env).match

\* C20: with the vision pipeline enabled, in every answered /inspect
\* request: a vision result OK without match_on_ok leaves the matcher
\* uninvoked and match null; a vision result NG has the matcher invoked, on
\* the crop of the (earliest) largest region when there is a region and
\* the crop can be encoded, on the full image otherwise; a vision stage
\* that returned nothing sets fallback_to_clip and has the matcher invoked
\* on the full image.
C20_MatcherFollowsVision ==
    (/\ call.op = "inspect_defect"
     /\ disk.ENABLE_VISION_PIPELINE
     /\ call.response.kind = "result")
        => LET v == call.response.body.vision
               m == call.matcher
               full == Upload(call.request.image_ok)
           IN  /\ (v.result = "OK" /\ call.request.match_on_ok # "true")
                     => (~m.invoked /\ call.response.body.match = NoMatch)
               /\ v.result = "NG"
                     => /\ m.invoked
                        /\ IF v.defect_regions # <<>> /\ call.env.encode_ok
                           THEN /\ m.image.kind = "crop"
                                /\ \E i \in 1..Len(v.defect_regions) :
                                      /\ m.image.region = v.defect_regions[i]
                                      /\ \A j \in 1..Len(v.defect_regions) :
                                            /\ v.defect_regions[j].w * v.defect_regions[j].h
                                                  <= v.defect_regions[i].w * v.defect_regions[i].h
                                            /\ j < i =>
                                                  v.defect_regions[j].w * v.defect_regions[j].h
                                                     < v.defect_regions[i].w * v.defect_regions[i].h
                           ELSE m.image = full
               /\ v = NoVision
                     => /\ call.response.body.fallback_to_clip
                        /\ m = Invoked(full)

\* C20 witness: the engine reported NG with two regions, the second the
\* larger, and the matcher was invoked on the crop of the second.
C20_MatchedOnLargestCrop ==
    /\ call.op = "inspect_defect"
    /\ disk.ENABLE_VISION_PIPELINE
    /\ call.response.kind = "result"
    /\ call.response.body.vision.result = "NG"
    /\ Len(call.response.body.vision.defect_regions) = 2
    /\ call.response.body.vision.defect_regions[1].w
          * call.response.body.vision.defect_regions[1].h
          < call.response.body.vision.defect_regions[2].w
               * call.response.body.vision.defect_regions[2].h
    /\ call.matcher.invoked
    /\ call.matcher.image.kind = "crop"
    /\ call.matcher.image.region = call.response.body.vision.defect_regions[2]

(***************************************************************************)
(* Properties of the orchestration inside VisionEngine.inspect             *)
(***************************************************************************)
\* C21: in an inspect call that reaches the detectors and in which a
\* rule-based detector raises, every detector of the list is still invoked,
\* no region of a failing detector is among the regions passed to duplicate
\* removal, every region a succeeding detector returned is among them, and
\* (the image having a height and a width) the call does not return the
\* error result.
C21_FailingDetectorIsSkipped ==
    (/\ call.op = "inspect"
     /\ IsArray(call.image)
     /\ Size(call.image) # 0
     /\ ~call.pre.raised
     /\ \E k \in Elements(engine.detectors) : call.envs[k].mode = "escape")
        => LET passed == RuleStage(engine.detectors, engine.config, call.pre.value,
                                   call.envs,
                                   AnomalyStage(det, call.pre.value, call.aenv)).regions
           IN  /\ \A k \in Elements(engine.detectors) :
                     /\ \E i \in 1..Len(call.calls) : call.calls[i] = Invocation(k, "detect")
                     /\ call.envs[k].mode = "escape"
                           => \A i \in 1..Len(passed) : passed[i].detector_name # k
                     /\ call.envs[k].mode # "escape"
                           => Elements(RuleDetect(k, engine.config, call.pre.value,
                                                  call.envs[k]).value)
                                 \subseteq Elements(passed)
               /\ Rank(call.pre.value) >= 2
                     => (~call.raised /\ call.result.detectors_used # <<"ERROR">>)

\* C21 witness: the crack detector raised, the hole detector was invoked
\* after it and its region is in the NG result.
C21_HoleFoundAfterCrackFailed ==
    /\ call.op = "inspect"
    /\ engine.detectors = <<"CrackDetector", "HoleDetector">>
    /\ call.envs["CrackDetector"].mode = "escape"
    /\ \E i \in 1..Len(call.calls) :
          /\ call.calls[i] = Invocation("CrackDetector", "detect")
          /\ i < Len(call.calls)
          /\ call.calls[i + 1] = Invocation("HoleDetector", "detect")
    /\ ~call.raised
    /\ call.result.result = "NG"
    /\ call.result.detectors_used = <<"HoleDetector">>
    /\ Len(call.result.defect_regions) = 1
    /\ call.result.defect_regions[1].detector_name = "HoleDetector"

\* C22: in an inspect call that reaches the detectors (the image having a
\* height and a width) and in which the anomaly detector raises, in
\* get_score or in detect, the result has anomaly_score 0.0 and no anomaly
\* region and does not list the anomaly detector, whatever get_score had
\* returned; every rule-based detector is still invoked and the verdict is
\* NG exactly when their regions leave a region in the result.
C22_AnomalyFailureIsZero ==
    (/\ call.op = "inspect"
     /\ det.exists
     /\ IsArray(call.image)
     /\ Size(call.image) # 0
     /\ ~call.pre.raised
     /\ Rank(call.pre.value) >= 2
     /\ \/ call.aenv.score_mode = "escape"
        \/ call.aenv.detect.mode = "escape")
        => /\ ~call.raised
           /\ call.result.anomaly_score = 0
           /\ \A i \in 1..Len(call.result.defect_regions) :
                 call.result.defect_regions[i].detector_name # "AnomalyDetector"
           /\ "AnomalyDetector" \notin Elements(call.result.detectors_used)
           /\ \A k \in Elements(engine.detectors) :
                 \E i \in 1..Len(call.calls) : call.calls[i] = Invocation(k, "detect")
           /\ call.result.result = "NG" <=> call.result.defect_regions # <<>>

\* C22 witness: a trained detector whose get_score gave 1.0 on a valid
\* image, above the threshold, and whose detect then raised: the result is
\* OK with anomaly_score 0.0.
C22_ScoreDroppedWhenDetectRaised ==
    /\ call.op = "inspect"
    /\ det.exists
    /\ det.is_trained
    /\ ~call.pre.raised
    /\ ValidateImage(call.pre.value)
    /\ call.aenv.score_mode = "ok"
    /\ AnomalyGetScore(det, call.pre.value, call.aenv) = 10
    /\ engine.config.anomaly_threshold < 10
    /\ call.aenv.detect.mode = "escape"
    /\ call.calls[2] = Invocation("AnomalyDetector", "detect")
    /\ ~call.raised
    /\ call.result.result = "OK"
    /\ call.result.anomaly_score = 0

\* C23: among the invocations of one inspect call every call of the
\* anomaly detector comes before every call of a rule-based detector,
\* get_score before detect, CrackDetector before HoleDetector, and
\* _remove_duplicates and _make_decision (in that order) after every call of
\* a detector; when they are reached, the anomaly detector (if there is
\* one) and every detector of the list have been invoked.
C23_FixedInvocationOrder ==
    call.op = "inspect"
        => /\ \A i, j \in 1..Len(call.calls) :
                 /\ (/\ call.calls[i].callee = "AnomalyDetector"
                     /\ call.calls[j].callee \in {"CrackDetector", "HoleDetector"}) => i < j
                 /\ (/\ call.calls[i] = Invocation("AnomalyDetector", "get_score")
                     /\ call.calls[j] = Invocation("AnomalyDetector", "detect")) => i < j
                 /\ (/\ call.calls[i].callee = "CrackDetector"
                     /\ call.calls[j].callee = "HoleDetector") => i < j
                 /\ (/\ call.calls[i].callee # "VisionEngine"
                     /\ call.calls[j].callee = "VisionEngine") => i < j
                 /\ (/\ call.calls[i].method = "_remove_duplicates"
                     /\ call.calls[j].method = "_make_decision") => i < j
           /\ (\E i \in 1..Len(call.calls) : call.calls[i].callee = "VisionEngine")
                 => /\ \A k \in Elements(engine.detectors) :
                          \E i \in 1..Len(call.calls) : call.calls[i] = Invocation(k, "detect")
                    /\ det.exists
                          => call.calls[1] = Invocation("AnomalyDetector", "get_score")

\* C23 witness: a call on an engine with all three detectors that invoked
\* get_score, detect, the crack detector, the hole detector, duplicate
\* removal and the decision, in this order.
C23_AllSixInOrder ==
    /\ call.op = "inspect"
    /\ call.calls = << Invocation("AnomalyDetector", "get_score"),
                       Invocation("AnomalyDetector", "detect"),
                       Invocation("CrackDetector", "detect"),
                       Invocation("HoleDetector", "detect"),
                       Invocation("VisionEngine", "_remove_duplicates"),
                       Invocation("VisionEngine", "_make_decision") >>
    /\ ~call.raised

\* C24: every region in the defect_regions of a result inspect returns
\* lies inside the processed image (x >= 0, y >= 0, w > 0, h > 0,
\* x + w <= width, y + h <= height), and off the error path a result is NG
\* only with an anomaly score above the threshold or with such a region:
\* a region outside the image is not in the result and does not make it NG.
C24_RegionsInsideImage ==
    (call.op = "inspect" /\ ~call.raised)
        => /\ \A i \in 1..Len(call.result.defect_regions) :
                 LET r == call.result.defect_regions[i]
                 IN  /\ ~call.pre.raised
                     /\ Rank(call.pre.value) >= 2
                     /\ r.x >= 0 /\ r.y >= 0 /\ r.w > 0 /\ r.h > 0
                     /\ r.x + r.w <= call.pre.value.shape[2]
                     /\ r.y + r.h <= call.pre.value.shape[1]
           /\ (call.result.result = "NG" /\ call.result.detectors_used # <<"ERROR">>)
                 => \/ call.result.anomaly_score > engine.config.anomaly_threshold
                    \/ call.result.defect_regions # <<>>

\* C24 witness: the crack detector reported a region that reaches beyond
\* the right edge of the image, and nothing else was found: the result is
\* OK and has no region.
C24_OutsideRegionDropped ==
    /\ call.op = "inspect"
    /\ ~call.raised
    /\ ~call.pre.raised
    /\ engine.config.enable_crack_detector
    /\ RuleDetect("CrackDetector", engine.config, call.pre.value,
                  call.envs["CrackDetector"])
          = Ok(<<DefectRegion(BoxOut, "crack", 9, "CrackDetector")>>)
    /\ call.result.result = "OK"
    /\ call.result.defect_regions = <<>>

(***************************************************************************)
(* Further properties of duplicate removal                                 *)
(***************************************************************************)
\* The number of positions of the list `s` that hold `r`.
Occurrences(s, r) == Cardinality({i \in 1..Len(s) : s[i] = r})

ReturnedOffErrorPath ==
    /\ call.op = "inspect"
    /\ ~call.raised
    /\ call.result.detectors_used # <<"ERROR">>

RegionNames(regions) == {regions[i].detector_name : i \in 1..Len(regions)}

\* C27 as stated: off the error path detectors_used has no duplicates,
\* every rule-based detector it names is the detector_name of a region of
\* defect_regions, every detector_name of defect_regions is in it, and an
\* "OK" result names no rule-based detector.
C27_UsedMatchesRegions ==
    ReturnedOffErrorPath
        => LET used == call.result.detectors_used
               names == RegionNames(call.result.defect_regions)
           IN  /\ \A i, j \in 1..Len(used) : used[i] = used[j] => i = j
               /\ \A i \in 1..Len(used) :
                     used[i] \in Elements(engine.detectors) => used[i] \in names
               /\ names \subseteq Elements(used)
               /\ call.result.result = "OK"
                     => Elements(used) \cap Elements(engine.detectors) = {}

\* C27, amended: off the error path detectors_used has no duplicates, every
\* detector_name of defect_regions is in it, and the rule-based detectors
\* it names are the ones whose detect returned at least one region in this
\* call, whether or not a region of theirs is left in defect_regions.
C27_UsedAreDetectorsThatReported ==
    ReturnedOffErrorPath
        => LET used == call.result.detectors_used
               names == RegionNames(call.result.defect_regions)
           IN  /\ \A i, j \in 1..Len(used) : used[i] = used[j] => i = j
               /\ names \subseteq Elements(used)
               /\ \A k \in Elements(engine.detectors) :
                     k \in Elements(used)
                        <=> LET regions == RuleDetect(k, engine.config, call.pre.value,
                                                      call.envs[k])
                            IN  ~regions.raised /\ regions.value # <<>>

\* C27 witness: an "OK" result without regions names the crack detector,
\* which reported a region that was dropped afterwards.
C27_OkResultNamesCrackDetector ==
    /\ ReturnedOffErrorPath
    /\ call.result.result = "OK"
    /\ call.result.defect_regions = <<>>
    /\ call.result.detectors_used = <<"CrackDetector">>

(***************************************************************************)
(* Training and loading, on the detector and through the engine            *)
(* (examples/train_anomaly_detector.py): engines without rule-based        *)
(* detectors, with and without the anomaly detector.                       *)
(***************************************************************************)
TrainingConfigs ==
    {c \in Configs : /\ ~ConstructRaises(c)
                     /\ ~c.enable_crack_detector /\ ~c.enable_hole_detector
                     /\ c.crack_confidence_threshold = 7
                     /\ c.anomaly_threshold = 5}

TrainingInit ==
    /\ \E c \in TrainingConfigs :
          /\ engine = EngineOf(c)
          /\ det = AnomalyDetectorOf(c)
    /\ disk \in {FileMissing, FileGarbage, FileOf(Bank(2, 2, 1))}
    /\ call = Idle
    /\ db = NoDb

\* engine.anomaly_detector.train(...), where the engine has the detector.
CallTrain == det.exists /\ DetTrain

CallLoadMemoryBank == det.exists /\ DetLoad

CallSaveMemoryBank == det.exists /\ DetSave

TrainingNext ==
    \/ CallTrain
    \/ CallLoadMemoryBank
    \/ CallSaveMemoryBank
    \/ EngineTrain
    \/ Return

SpecTraining == TrainingInit /\ [][TrainingNext]_vars

\* C28: a train(), load_memory_bank() or train_anomaly_detector() that
\* raised has left is_trained and the memory bank (mean, std, num_samples)
\* exactly as they were before the call: a Trained detector has its old
\* bank, an Untrained one is Untrained, and an engine without anomaly
\* detector has none.
C28_FailedTrainingChangesNothing ==
    (call.op \in {"train", "load"} /\ call.raised)
        => /\ det = call.before
           /\ det.is_trained = call.before.is_trained
           /\ det.memory_bank.present = call.before.memory_bank.present
           /\ det.memory_bank.present
                 => /\ det.memory_bank.mean = call.before.memory_bank.mean
                    /\ det.memory_bank.std = call.before.memory_bank.std
                    /\ det.memory_bank.num_samples = call.before.memory_bank.num_samples

\* C28 witness: load_memory_bank raised on a detector trained on two
\* images, on a file that holds no bank; the detector has the bank of the
\* two images.
C28_FailedLoadKeepsOldBank ==
    /\ call.op = "load"
    /\ call.raised
    /\ disk.state # "bank"
    /\ det.is_trained
    /\ det.memory_bank.present
    /\ det.memory_bank.num_samples = 2

\* train_anomaly_detector raised on an engine without anomaly detector.
C28_DisabledTrainingRaised ==
    /\ call.op = "train"
    /\ call.raised
    /\ ~det.exists
    /\ ~engine.config.enable_anomaly_detector

(***************************************************************************)
(* get_score on one thread while train() or load_memory_bank() runs on     *)
(* another, on the same AnomalyDetector.  Python switches threads between  *)
(* statements: a step is one read or one assignment of an attribute of     *)
(* the detector.  The dict bound to memory_bank is never modified, only    *)
(* replaced.                                                               *)
(*                                                                         *)
(* call.writer is the thread in train / load_memory_bank, call.reader the  *)
(* one in get_score with its locals (features, mean, std, score), what it  *)
(* observed, and `banks`: the values memory_bank had during the call.      *)
(***************************************************************************)
\* The images get_score extracts features of.
ScorableImages ==
    {im \in Images : ValidateImage(im) /\ ~ExtractFeatures(im, TRUE).raised}

\* One feature stands for the feature vector of the image.
Features == {1, 4, 7}

\* _compute_anomaly_score, lines 268-276: z_score = |features - mean| / std,
\* score = min(1.0, max_z / 3.0), in tenths.
ScoreAgainst(features, mean, std) ==
    LET distance == IF features >= mean THEN features - mean ELSE mean - features
    IN  Min2(10, (10 * distance) \div (3 * std))

WriterIdle == [pc |-> "idle", bank |-> NoBank]

ReaderIdle ==
    [pc |-> "idle", image |-> NoneImage, features |-> 0, saw_trained |-> FALSE,
     saw_bank |-> FALSE, mean |-> 0, std |-> 0, score |-> 0, banks |-> {}]

ThreadsInit ==
    /\ \E c \in {k \in AnomalyOnlyConfigs : k.anomaly_threshold = 5 /\ k.resize = <<0, 0>>} :
          /\ engine = EngineOf(c)
          /\ det = AnomalyDetectorOf(c)
    /\ disk = FileOf(Bank(3, 3, 4))
    /\ call = [op |-> "threads", writer |-> WriterIdle, reader |-> ReaderIdle]
    /\ db = NoDb

\* A variant of the two assignments of train / load_memory_bank in the
\* other order: the flag, then the bank.
AssignFlagThenBank(d, w) ==
    IF w.pc = "bank"
    THEN [det |-> [d EXCEPT !.is_trained = TRUE], pc |-> "flag"]
    ELSE [det |-> [d EXCEPT !.memory_bank = w.bank], pc |-> "idle"]

\* self.memory_bank = {...} (lines 95, 389), then self.is_trained = True
\* (lines 101, 394).
AssignBankThenFlag(d, w) ==
    IF w.pc = "bank"
    THEN [det |-> [d EXCEPT !.memory_bank = w.bank], pc |-> "flag"]
    ELSE [det |-> [d EXCEPT !.is_trained = TRUE], pc |-> "idle"]

\* train(ok_images) up to its first assignment: the features of all images
\* and the new dict; a call that raises ends here.  The score never reads
\* num_samples: lists of no image and of one image are enough.
TrainBegin ==
    /\ call.writer.pc = "idle"
    /\ \E images \in SeqsUpTo(ScorableImages, 1), env \in TrainEnvs :
         LET r == Train(det, images, env)
         IN  call' = [call EXCEPT !.writer =
                         IF r.raised THEN WriterIdle
                         ELSE [pc |-> "bank", bank |-> r.det.memory_bank]]
    /\ UNCHANGED <<engine, det, disk, db>>

\* load_memory_bank(filepath) up to its first assignment.
LoadBegin ==
    /\ call.writer.pc = "idle"
    /\ LET r == LoadMemoryBank(det, disk)
       IN  call' = [call EXCEPT !.writer =
                       IF r.raised THEN WriterIdle
                       ELSE [pc |-> "bank", bank |-> r.det.memory_bank]]
    /\ UNCHANGED <<engine, det, disk, db>>

\* One of the two assignments.
WriterAssign ==
    /\ call.writer.pc \in {"bank", "flag"}
    /\ LET r == AssignBankThenFlag(det, call.writer)
       IN  /\ det' = r.det
           /\ call' = [call EXCEPT
                          !.writer = [call.writer EXCEPT !.pc = r.pc],
                          !.reader = IF call.reader.pc = "idle" THEN call.reader
                                     ELSE [call.reader EXCEPT
                                              !.banks = @ \cup {r.det.memory_bank}]]
    /\ UNCHANGED <<engine, disk, db>>

\* get_score(image) is called.
GetScoreBegin ==
    /\ call.reader.pc = "idle"
    /\ \E image \in ScorableImages :
          call' = [call EXCEPT !.reader =
                      [ReaderIdle EXCEPT !.pc = "is_trained", !.image = image,
                                         !.banks = {det.memory_bank}]]
    /\ UNCHANGED <<engine, det, disk, db>>

\* Line 160: if not self.is_trained: return 0.0; then _validate_image and
\* _extract_features, which read nothing of the detector's.
GetScoreReadIsTrained ==
    /\ call.reader.pc = "is_trained"
    /\ \E features \in Features :
          call' = [call EXCEPT !.reader =
                      IF ~det.is_trained
                      THEN [call.reader EXCEPT !.pc = "done", !.score = 0]
                      ELSE [call.reader EXCEPT !.pc = "is_none", !.saw_trained = TRUE,
                                               !.features = features]]
    /\ UNCHANGED <<engine, det, disk, db>>

\* Line 262: if self.memory_bank is None: return 0.0.
ComputeReadIsNone ==
    /\ call.reader.pc = "is_none"
    /\ call' = [call EXCEPT !.reader =
                   IF ~det.memory_bank.present
                   THEN [call.reader EXCEPT !.pc = "done", !.score = 0]
                   ELSE [call.reader EXCEPT !.pc = "mean", !.saw_bank = TRUE]]
    /\ UNCHANGED <<engine, det, disk, db>>

\* Line 265: mean = self.memory_bank['mean'].
ComputeReadMean ==
    /\ call.reader.pc = "mean"
    /\ call' = [call EXCEPT !.reader.pc = "std", !.reader.mean = det.memory_bank.mean]
    /\ UNCHANGED <<engine, det, disk, db>>

\* Line 266: std = self.memory_bank['std'], and the arithmetic on the locals.
ComputeReadStd ==
    /\ call.reader.pc = "std"
    /\ call' = [call EXCEPT
                   !.reader.pc = "done",
                   !.reader.std = det.memory_bank.std,
                   !.reader.score = ScoreAgainst(call.reader.features, call.reader.mean,
                                                 det.memory_bank.std)]
    /\ UNCHANGED <<engine, det, disk, db>>

\* The caller of get_score takes the score.
GetScoreReturn ==
    /\ call.reader.pc = "done"
    /\ call' = [call EXCEPT !.reader = ReaderIdle]
    /\ UNCHANGED <<engine, det, disk, db>>

ThreadsNext ==
    \/ TrainBegin
    \/ LoadBegin
    \/ WriterAssign
    \/ GetScoreBegin
    \/ GetScoreReadIsTrained
    \/ ComputeReadIsNone
    \/ ComputeReadMean
    \/ ComputeReadStd
    \/ GetScoreReturn

SpecThreads == ThreadsInit /\ [][ThreadsNext]_vars

\* get_score has computed what it returns.
ScoreComputed == call.op = "threads" /\ call.reader.pc = "done"

\* C29 as stated: a score get_score returns while train() or
\* load_memory_bank() runs is 0.0 with the detector observed Untrained, or
\* is computed from the mean and the std of one bank, the one before the
\* update or the one after it; is_trained is never observed true with the
\* bank missing.
C29_ScoreFromOneBank ==
    ScoreComputed
        => /\ call.reader.saw_trained => call.reader.saw_bank
           /\ \/ ~call.reader.saw_trained /\ call.reader.score = 0
              \/ \E b \in call.reader.banks :
                    /\ b.present
                    /\ call.reader.mean = b.mean
                    /\ call.reader.std = b.std
                    /\ call.reader.score
                          = ScoreAgainst(call.reader.features, b.mean, b.std)

\* C29, amended: the score is 0.0 with the detector observed Untrained, or
\* is computed from a mean and a std each of which is that of a bank the
\* detector had during the call, not necessarily the same bank; they are of
\* the same bank when memory_bank was not assigned during the call;
\* is_trained is never observed true with the bank missing.
C29_ScoreFromBanksOfTheCall ==
    ScoreComputed
        => /\ call.reader.saw_trained => call.reader.saw_bank
           /\ \/ ~call.reader.saw_trained /\ call.reader.score = 0
              \/ \E b1, b2 \in call.reader.banks :
                    /\ b1.present /\ b2.present
                    /\ Cardinality(call.reader.banks) = 1 => b1 = b2
                    /\ call.reader.mean = b1.mean
                    /\ call.reader.std = b2.std
                    /\ call.reader.score
                          = ScoreAgainst(call.reader.features, b1.mean, b2.std)

\* C29 witness: get_score read the mean of the bank of a training and, after
\* load_memory_bank had replaced the bank, the std of the loaded one.
C29_MeanAndStdOfTwoBanks ==
    /\ ScoreComputed
    /\ call.reader.saw_bank
    /\ call.reader.mean = 1
    /\ call.reader.std = 3
    /\ det.memory_bank = Bank(3, 3, 4)

(***************************************************************************)
(* Properties of the crop's position                                       *)
(***************************************************************************)
\* crop_defect_region was called on a non-empty image with w, h > 0.
CroppedNonEmptyImage ==
    /\ call.op = "crop_defect_region"
    /\ IsArray(call.image)
    /\ Size(call.image) # 0
    /\ Rank(call.image) >= 2
    /\ call.box.w > 0
    /\ call.box.h > 0

====
